---- MODULE Spec2Model ----
(***************************************************************************)
(* Scouting analytics core of the VALORANT scouting assistant:             *)
(*   grid_client/client.py   GridClient._compute_team_history              *)
(*   analysis/stats.py       StatsCalculator                               *)
(*   analysis/patterns.py    PatternDetector                               *)
(*   analysis/report_builder.py  ScoutingReportBuilder                     *)
(*                                                                         *)
(* Numbers.  Python floats that hold quotients of small integers are       *)
(* modelled as exact rationals <<n, d>> with d > 0; round(x, 1) yields an  *)
(* integer number of tenths and round(x, 2) an integer number of           *)
(* hundredths (round-half-even, as Python rounds).  Dictionaries are       *)
(* sequences of entries in insertion order, because the code relies on     *)
(* that order.  Formatted strings are tuples of the values they embed.     *)
(* The iteration order of a Python set of strings depends on the           *)
(* interpreter's string hash seed: it is the variable hashseed, fixed for  *)
(* the lifetime of one interpreter process.                                *)
(***************************************************************************)
EXTENDS Integers, Sequences, FiniteSets, TLC

VARIABLES
    input,      \* match records supplied by the data provider: [a, b, h2h]
    hashseed,   \* set iteration order of this interpreter process
    data,       \* GridDataPackage built by fetch_scouting_data, or NoData
    pc,         \* "start" before the package is built, "ready" after
    out,        \* result of the last StatsCalculator / PatternDetector call
    clock,      \* datetime.now(), in whole seconds
    reports     \* the reports returned by build_report so far

vars == <<input, hashseed, data, pc, out, clock, reports>>

\* ------------------------------------------------------------------ bounds
MaxMatches == 4
MaxBlock == 7
MaxForm == 5
MaxClock == 1
MaxMaps == 4

\* ------------------------------------------------------ generic operators
Range(s) == {s[i] : i \in 1..Len(s)}

Abs(x) == IF x < 0 THEN -x ELSE x

Min(a, b) == IF a < b THEN a ELSE b

Max(a, b) == IF a < b THEN b ELSE a

Take(s, n) == SubSeq(s, 1, Min(n, Len(s)))

Count(s, x) == Cardinality({i \in 1..Len(s) : s[i] = x})

RECURSIVE SumSeq(_)
SumSeq(s) == IF s = <<>> THEN 0 ELSE s[1] + SumSeq(Tail(s))

RECURSIVE SumOver(_, _)
\* the sum of f[x] over the x in S
SumOver(f, S) ==
    IF S = {} THEN 0
    ELSE LET x == CHOOSE y \in S : TRUE
         IN f[x] + SumOver(f, S \ {x})

\* A nested loop `for i, outer in enumerate(xs): for j, inner in
\* enumerate(outer.items)` visits the positions <<i, j>> in this order.
Visited(lens) == UNION {{<<i, j>> : j \in 1..lens[i]} : i \in 1..Len(lens)}

Earlier(p, q) == p[1] < q[1] \/ (p[1] = q[1] /\ p[2] < q[2])

\* The keys of a dict filled during such a loop, in insertion order: key[p]
\* is the key touched at position p, and a key is inserted when it is first
\* touched.
InsertionOrder(P, key) ==
    LET K == {key[p] : p \in P}
        first(k) == CHOOSE p \in P :
                        key[p] = k /\ \A q \in P : key[q] = k => ~Earlier(q, p)
        rank(k) == 1 + Cardinality({k2 \in K : Earlier(first(k2), first(k))})
    IN [r \in 1..Cardinality(K) |-> CHOOSE k \in K : rank(k) = r]

\* sorted(s, key=...) : Python's sort is stable.  Less(x, y) is "key(x) <
\* key(y)"; with reverse=True the caller passes the converse comparison and
\* equal elements still keep their original order, as in Python.
StableSort(s, Less(_, _)) ==
    LET n == Len(s)
        rank(i) == 1 + Cardinality({j \in 1..n :
                        Less(s[j], s[i]) \/ (~Less(s[i], s[j]) /\ j < i)})
    IN [r \in 1..n |-> s[CHOOSE i \in 1..n : rank(i) = r]]

\* ------------------------------------------------------------- rationals
Rat(n, d) == <<n, d>>

RAdd(a, b) == <<a[1] * b[2] + b[1] * a[2], a[2] * b[2]>>

RSub(a, b) == <<a[1] * b[2] - b[1] * a[2], a[2] * b[2]>>

RLess(a, b) == a[1] * b[2] < b[1] * a[2]

RLeq(a, b) == a[1] * b[2] <= b[1] * a[2]

RAbs(a) == <<Abs(a[1]), a[2]>>

RInt(k) == <<k, 1>>

\* round(x, digits): x * scale rounded to the nearest integer, ties to even
RoundScaled(x, scale) ==
    LET n == x[1] * scale
        q == n \div x[2]
        r == n % x[2]
    IN IF 2 * r > x[2] THEN q + 1
       ELSE IF 2 * r < x[2] THEN q
       ELSE IF q % 2 = 0 THEN q ELSE q + 1

Round1(x) == RoundScaled(x, 10)

Round2(x) == RoundScaled(x, 100)

\* ---------------------------------------------------------------- teams
AgentNames == {"Jett", "Sova"}

Other == "X"

TeamA == [id |-> "A", short_name |-> "TA", roster |-> <<"a1">>]

TeamB == [id |-> "B", short_name |-> "TB", roster |-> <<"b1", "b2">>]

NoData == [tag |-> "none"]

NoOut == [op |-> "none"]

\* ------------------------------------------- GridClient._compute_team_history
RecentFormLen == 5

InRoster(team, player_id) == player_id \in Range(team.roster)

\* client.py:515  wins = sum(1 for m in matches if m.winner_team_id == team.id)
MatchWins(team, matches) ==
    Cardinality({i \in 1..Len(matches) : matches[i].winner_team_id = team.id})

\* a win rate taken over the losses instead of over all matches
WinRate_OverLosses(wins, n) ==
    IF n - wins > 0 THEN Rat(wins * 100, n - wins) ELSE Rat(0, 1)

\* client.py:517  win_rate = (wins / len(matches) * 100) if matches else 0
WinRate(wins, n) == IF n > 0 THEN Rat(wins * 100, n) ELSE Rat(0, 1)

\* the rounds always read from the first side of each result
AccumulateMaps_FirstSide(team, matches) ==
    LET P == Visited([i \in 1..Len(matches) |-> Len(matches[i].maps_played)])
        mr == [p \in P |-> matches[p[1]].maps_played[p[2]]]
        names == InsertionOrder(P, [p \in P |-> mr[p].map_name])
        on(name) == {p \in P : mr[p].map_name = name}
    IN [r \in 1..Len(names) |->
          [k |-> names[r],
           played |-> Cardinality(on(names[r])),
           wins |-> Cardinality({p \in on(names[r]) :
                                    mr[p].winner_team_id = team.id}),
           rounds_won |-> SumOver([p \in P |-> mr[p].team_a_score],
                                  on(names[r])),
           rounds_lost |-> SumOver([p \in P |-> mr[p].team_b_score],
                                   on(names[r]))]]

\* client.py:520-541  the map_stats dict after the loop over matches and
\* their maps_played: one entry per map name, inserted when the map is first
\* met; played counts the map's results, wins those won by the team, and the
\* rounds are taken from the team's own side of each result
AccumulateMaps(team, matches) ==
    LET P == Visited([i \in 1..Len(matches) |-> Len(matches[i].maps_played)])
        mr == [p \in P |-> matches[p[1]].maps_played[p[2]]]
        is_team_a == [p \in P |-> matches[p[1]].team_a_id = team.id]
        names == InsertionOrder(P, [p \in P |-> mr[p].map_name])
        on(name) == {p \in P : mr[p].map_name = name}
        rounds_won == [p \in P |-> IF is_team_a[p] THEN mr[p].team_a_score
                                                  ELSE mr[p].team_b_score]
        rounds_lost == [p \in P |-> IF is_team_a[p] THEN mr[p].team_b_score
                                                   ELSE mr[p].team_a_score]
    IN [r \in 1..Len(names) |->
          [k |-> names[r],
           played |-> Cardinality(on(names[r])),
           wins |-> Cardinality({p \in on(names[r]) :
                                    mr[p].winner_team_id = team.id}),
           rounds_won |-> SumOver(rounds_won, on(names[r])),
           rounds_lost |-> SumOver(rounds_lost, on(names[r]))]]

\* client.py:521, 543-546  the agent_picks dict after the loop: a count per
\* agent over the picks made by roster players, agents in first-seen order
AccumulatePicks(team, matches) ==
    LET P == {p \in Visited([i \in 1..Len(matches) |->
                                Len(matches[i].agent_picks)]) :
                InRoster(team, matches[p[1]].agent_picks[p[2]].player_id)}
        agent == [p \in P |-> matches[p[1]].agent_picks[p[2]].agent]
        agents == InsertionOrder(P, agent)
    IN [r \in 1..Len(agents) |->
          [k |-> agents[r],
           n |-> Cardinality({p \in P : agent[p] = agents[r]})]]

\* client.py:549-552  map_stats[map_name]["win_rate"] = wins / played * 100
WithMapWinRates(map_stats) ==
    [i \in 1..Len(map_stats) |->
        [k |-> map_stats[i].k, played |-> map_stats[i].played,
         wins |-> map_stats[i].wins,
         rounds_won |-> map_stats[i].rounds_won,
         rounds_lost |-> map_stats[i].rounds_lost,
         win_rate |-> IF map_stats[i].played > 0
                      THEN Rat(map_stats[i].wins * 100, map_stats[i].played)
                      ELSE Rat(0, 1)]]

\* client.py:549-551, 562  the loop over map_stats rebinds the local name
\* `wins`, so the value passed as wins= is the last map's win count whenever
\* at least one map was played
ReportedWins(match_wins, map_stats) ==
    IF map_stats = <<>> THEN match_wins ELSE map_stats[Len(map_stats)].wins

\* the form read off the first matches of the list as it was received
RecentForm_Unsorted(team, matches) ==
    LET recent_matches == Take(matches, 5)
    IN [i \in 1..Len(recent_matches) |->
          IF recent_matches[i].winner_team_id = team.id THEN "W" ELSE "L"]

\* client.py:555-556  sorted(matches, key=date, reverse=True)[:5]
RecentForm(team, matches) ==
    LET newer(x, y) == x.date > y.date
        recent_matches == Take(StableSort(matches, newer), RecentFormLen)
    IN [i \in 1..Len(recent_matches) |->
          IF recent_matches[i].winner_team_id = team.id THEN "W" ELSE "L"]

\* client.py:513-568
compute_team_history(team, matches) ==
    LET wins == MatchWins(team, matches)
        losses == Len(matches) - wins
        win_rate == WinRate(wins, Len(matches))
        map_stats == WithMapWinRates(AccumulateMaps(team, matches))
        agent_picks == AccumulatePicks(team, matches)
    IN [team |-> team,
        matches |-> matches,
        total_matches |-> Len(matches),
        wins |-> ReportedWins(wins, map_stats),
        losses |-> losses,
        win_rate |-> win_rate,
        map_stats |-> map_stats,
        agent_picks |-> agent_picks,
        recent_form |-> RecentForm(team, matches)]


\* ------------------------------------------------------- StatsCalculator
MinMapGames == 2

DefaultTopMaps == 3

DefaultTopAgents == 5

DefaultTopStars == 2

\* stats.py:40-57
summarize_form(form) ==
    LET wins == Count(form, "W")
        total == Len(form)
    IN IF form = <<>> THEN <<"No recent matches">>
       ELSE IF wins = total THEN <<"Perfect form", wins, total>>
       ELSE IF wins * 10 >= total * 8 THEN <<"Excellent form", wins, total>>
       ELSE IF wins * 10 >= total * 6 THEN <<"Good form", wins, total>>
       ELSE IF wins * 10 >= total * 4 THEN <<"Mixed form", wins, total>>
       ELSE <<"Poor form", wins, total>>

\* stats.py:29-38
calculate_overall_stats(team_history) ==
    [total_matches |-> team_history.total_matches,
     wins |-> team_history.wins,
     losses |-> team_history.losses,
     win_rate |-> Round1(team_history.win_rate),
     recent_form |-> team_history.recent_form,
     recent_form_summary |-> summarize_form(team_history.recent_form)]

\* stats.py:59-84
calculate_map_stats(team_history) ==
    LET ms == team_history.map_stats
        row(st) ==
            LET win_rate == IF st.played > 0 THEN Rat(st.wins * 100, st.played)
                                             ELSE Rat(0, 1)
                round_diff == st.rounds_won - st.rounds_lost
                avg_round_diff == IF st.played > 0 THEN Rat(round_diff, st.played)
                                                   ELSE Rat(0, 1)
            IN [k |-> st.k,
                played |-> st.played,
                wins |-> st.wins,
                losses |-> st.played - st.wins,
                win_rate |-> Round1(win_rate),
                rounds_won |-> st.rounds_won,
                rounds_lost |-> st.rounds_lost,
                round_differential |-> round_diff,
                avg_round_differential |-> Round1(avg_round_diff)]
    IN [i \in 1..Len(ms) |-> row(ms[i])]

\* stats.py:91, 115  {k: v for k, v in map_stats.items() if v["played"] >= 2}
QualifiedMaps(map_stats) ==
    LET qualified(st) == st.played >= MinMapGames
    IN SelectSeq(map_stats, qualified)

\* the sort key (win_rate, avg_round_differential), compared as Python
\* compares tuples
MapKeyLess(x, y) ==
    \/ x.win_rate < y.win_rate
    \/ x.win_rate = y.win_rate
       /\ x.avg_round_differential < y.avg_round_differential

MapKeyGreater(x, y) == MapKeyLess(y, x)

MapSummary(st) ==
    [map |-> st.k, win_rate |-> st.win_rate,
     record |-> <<st.wins, st.losses>>,
     avg_round_diff |-> st.avg_round_differential]

\* stats.py:86-108
get_best_maps(team_history, top_n) ==
    LET sorted_maps == StableSort(QualifiedMaps(calculate_map_stats(team_history)),
                                  MapKeyGreater)
        top == Take(sorted_maps, top_n)
    IN [i \in 1..Len(top) |-> MapSummary(top[i])]

\* get_worst_maps with the reverse=True of get_best_maps left in
get_worst_maps_Descending(team_history, top_n) ==
    LET sorted_maps == StableSort(QualifiedMaps(calculate_map_stats(team_history)),
                                  MapKeyGreater)
        top == Take(sorted_maps, top_n)
    IN [i \in 1..Len(top) |-> MapSummary(top[i])]

\* stats.py:110-131
get_worst_maps(team_history, top_n) ==
    LET sorted_maps == StableSort(QualifiedMaps(calculate_map_stats(team_history)),
                                  MapKeyLess)
        top == Take(sorted_maps, top_n)
    IN [i \in 1..Len(top) |-> MapSummary(top[i])]

\* stats.py:133-145
calculate_agent_stats(team_history) ==
    LET ap == team_history.agent_picks
        total_picks == SumSeq([i \in 1..Len(ap) |-> ap[i].n])
    IN [i \in 1..Len(ap) |->
          [k |-> ap[i].k,
           times_picked |-> ap[i].n,
           pick_rate |-> Round1(IF total_picks > 0
                                THEN Rat(ap[i].n * 100, total_picks)
                                ELSE Rat(0, 1))]]

\* stats.py:147-164
get_most_played_agents(team_history, top_n) ==
    LET more(x, y) == x.times_picked > y.times_picked
        top == Take(StableSort(calculate_agent_stats(team_history), more), top_n)
    IN [i \in 1..Len(top) |->
          [agent |-> top[i].k, times_picked |-> top[i].times_picked,
           pick_rate |-> top[i].pick_rate]]

\* stats.py:168-194  the player_stats dict after the loop over matches and
\* their player_stats lines, roster players only: one entry per player name
\* in first-seen order, holding the totals of that player's lines and the
\* count of each agent played, agents in first-seen order
AccumulatePlayers(team, matches) ==
    LET P == {p \in Visited([i \in 1..Len(matches) |->
                                Len(matches[i].player_stats)]) :
                InRoster(team, matches[p[1]].player_stats[p[2]].player_id)}
        stat == [p \in P |-> matches[p[1]].player_stats[p[2]]]
        names == InsertionOrder(P, [p \in P |-> stat[p].player_name])
        of(name) == {p \in P : stat[p].player_name = name}
        agents(name) == InsertionOrder(of(name),
                                       [p \in of(name) |-> stat[p].agent])
    IN [r \in 1..Len(names) |->
          [k |-> names[r],
           matches |-> Cardinality(of(names[r])),
           total_kills |-> SumOver([p \in P |-> stat[p].kills], of(names[r])),
           total_deaths |-> SumOver([p \in P |-> stat[p].deaths], of(names[r])),
           total_assists |-> SumOver([p \in P |-> stat[p].assists], of(names[r])),
           total_acs |-> SumOver([p \in P |-> stat[p].acs], of(names[r])),
           total_adr |-> SumOver([p \in P |-> stat[p].adr], of(names[r])),
           total_first_kills |->
               SumOver([p \in P |-> stat[p].first_kills], of(names[r])),
           total_first_deaths |->
               SumOver([p \in P |-> stat[p].first_deaths], of(names[r])),
           agents_played |->
               [a \in 1..Len(agents(names[r])) |->
                   [k |-> agents(names[r])[a],
                    n |-> Cardinality({p \in of(names[r]) :
                             stat[p].agent = agents(names[r])[a]})]]]]

\* stats.py:213  max(agents_played.items(), key=count)[0]: the first entry,
\* in insertion order, with the largest count
MostPlayedAgent(agents_played) ==
    IF agents_played = <<>> THEN "Unknown"
    ELSE LET best == CHOOSE i \in 1..Len(agents_played) :
                        /\ \A j \in 1..Len(agents_played) :
                              agents_played[j].n <= agents_played[i].n
                        /\ \A j \in 1..(i - 1) :
                              agents_played[j].n < agents_played[i].n
         IN agents_played[best].k

\* stats.py:166-216
calculate_player_stats(team_history) ==
    LET ps == AccumulatePlayers(team_history.team, team_history.matches)
        row(st) ==
            [k |-> st.k,
             matches_played |-> st.matches,
             avg_kills |-> Round1(Rat(st.total_kills, st.matches)),
             avg_deaths |-> Round1(Rat(st.total_deaths, st.matches)),
             avg_assists |-> Round1(Rat(st.total_assists, st.matches)),
             kd_ratio |-> Round2(Rat(st.total_kills, Max(st.total_deaths, 1))),
             avg_acs |-> Round1(Rat(st.total_acs, st.matches)),
             avg_adr |-> Round1(Rat(st.total_adr, st.matches)),
             total_first_kills |-> st.total_first_kills,
             total_first_deaths |-> st.total_first_deaths,
             fk_fd_diff |-> st.total_first_kills - st.total_first_deaths,
             most_played_agent |-> MostPlayedAgent(st.agents_played)]
    IN [i \in 1..Len(ps) |-> row(ps[i])]

\* stats.py:225-230  avg_acs*0.4 + kd_ratio*100*0.3 + avg_adr*0.2 +
\* fk_fd_diff*5*0.1, in hundredths (avg_acs and avg_adr are tenths, kd_ratio
\* hundredths)
StarScore(st) ==
    4 * st.avg_acs + 30 * st.kd_ratio + 2 * st.avg_adr + 50 * st.fk_fd_diff

\* stats.py:218-242
get_star_players(team_history, top_n) ==
    LET ps == calculate_player_stats(team_history)
        scored_players == [i \in 1..Len(ps) |->
            [name |-> ps[i].k,
             score |-> StarScore(ps[i]),
             avg_acs |-> ps[i].avg_acs,
             kd_ratio |-> ps[i].kd_ratio,
             avg_adr |-> ps[i].avg_adr,
             most_played_agent |-> ps[i].most_played_agent,
             fk_fd_diff |-> ps[i].fk_fd_diff]]
        higher(x, y) == x.score > y.score
    IN Take(StableSort(scored_players, higher), top_n)

\* stats.py:262-268  the map_records dict after the loop over the
\* head-to-head matches and their maps: a map won by team A counts for team
\* A, any other for team B; maps in first-seen order
TallyMatches(team_a_id, h2h) ==
    LET P == Visited([i \in 1..Len(h2h) |-> Len(h2h[i].maps_played)])
        mr == [p \in P |-> h2h[p[1]].maps_played[p[2]]]
        names == InsertionOrder(P, [p \in P |-> mr[p].map_name])
    IN [r \in 1..Len(names) |->
          [k |-> names[r],
           team_a_wins |-> Cardinality({p \in P :
                              mr[p].map_name = names[r]
                              /\ mr[p].winner_team_id = team_a_id}),
           team_b_wins |-> Cardinality({p \in P :
                              mr[p].map_name = names[r]
                              /\ mr[p].winner_team_id # team_a_id})]]

\* no meeting read as an even record
calculate_head_to_head_stats_NeutralDefault(d) ==
    [matches_played |-> Len(d.head_to_head_matches), team_a_wins |-> 0,
     team_b_wins |-> 0, team_a_win_rate |-> 50, map_records |-> <<>>]

\* stats.py:244-276
calculate_head_to_head_stats(d) ==
    LET h2h == d.head_to_head_matches
        team_a_id == d.team_a.team.id
        team_a_wins == Cardinality({i \in 1..Len(h2h) :
                                      h2h[i].winner_team_id = team_a_id})
    IN IF h2h = <<>>
       THEN [matches_played |-> 0, team_a_wins |-> 0, team_b_wins |-> 0,
             team_a_win_rate |-> 0, map_records |-> <<>>]
       ELSE [matches_played |-> Len(h2h),
             team_a_wins |-> team_a_wins,
             team_b_wins |-> Len(h2h) - team_a_wins,
             team_a_win_rate |-> Round1(Rat(team_a_wins * 100, Len(h2h))),
             map_records |-> TallyMatches(team_a_id, h2h)]


\* ------------------------------------------------------- PatternDetector
MapDepMinGames == 2

MapDepThreshold == 15

AgentDepMinGames == 3

AgentDepThreshold == 10

FormWindow == 3

\* iteration order of a Python set of agent names in this process
SetOrder(seed, S) ==
    LET member(x) == x \in S
    IN SelectSeq(seed, member)

\* the same sort without reverse=True
BiggerDifference_Ascending(x, y) == Abs(x.difference) < Abs(y.difference)

\* sorted(dependencies, key=lambda x: abs(x["difference"]), reverse=True)
BiggerDifference(x, y) == Abs(x.difference) > Abs(y.difference)

\* patterns.py:40-56  the entry appended for one map, or none
MapDependency(st, overall_win_rate) ==
    LET map_win_rate == st.win_rate
        diff == RSub(map_win_rate, overall_win_rate)
    IN IF st.played < MapDepMinGames THEN <<>>
       ELSE IF RLess(RInt(MapDepThreshold), RAbs(diff))
       THEN << [map |-> st.k,
                map_win_rate |-> Round1(map_win_rate),
                overall_win_rate |-> Round1(overall_win_rate),
                difference |-> Round1(diff),
                type |-> IF diff[1] > 0 THEN "strength" ELSE "weakness",
                games_played |-> st.played] >>
       ELSE <<>>

RECURSIVE MapDependencies(_, _)
\* patterns.py:40  for map_name, stats in team_history.map_stats.items()
MapDependencies(map_stats, overall_win_rate) ==
    IF map_stats = <<>> THEN <<>>
    ELSE MapDependency(map_stats[1], overall_win_rate)
         \o MapDependencies(Tail(map_stats), overall_win_rate)

\* patterns.py:33-58
detect_map_dependencies(team_history) ==
    StableSort(MapDependencies(team_history.map_stats, team_history.win_rate),
               BiggerDifference)

\* patterns.py:70-73  agents picked by this team in this match
AgentsInMatch(team, match) ==
    {match.agent_picks[i].agent :
        i \in {j \in 1..Len(match.agent_picks) :
                 InRoster(team, match.agent_picks[j].player_id)}}

\* patterns.py:65-81  the agent_match_results dict after the loop over the
\* matches: for each agent the team picked, the matches won and lost in which
\* it was picked; an agent is inserted when first met, the agents of one
\* match being met in the set's iteration order
AgentMatchResults(team, matches, seed) ==
    LET agents_in_match == [i \in 1..Len(matches) |->
                               SetOrder(seed, AgentsInMatch(team, matches[i]))]
        P == Visited([i \in 1..Len(matches) |-> Len(agents_in_match[i])])
        agent == [p \in P |-> agents_in_match[p[1]][p[2]]]
        agents == InsertionOrder(P, agent)
        won(p) == matches[p[1]].winner_team_id = team.id
    IN [r \in 1..Len(agents) |->
          [k |-> agents[r],
           wins |-> Cardinality({p \in P : agent[p] = agents[r] /\ won(p)}),
           losses |-> Cardinality({p \in P : agent[p] = agents[r] /\ ~won(p)})]]

\* patterns.py:87-104  the entry appended for one agent, or none
AgentDependency(res, overall_win_rate) ==
    LET total == res.wins + res.losses
        agent_win_rate == Rat(res.wins * 100, total)
        diff == RSub(agent_win_rate, overall_win_rate)
    IN IF total < AgentDepMinGames THEN <<>>
       ELSE IF RLess(RInt(AgentDepThreshold), RAbs(diff))
       THEN << [agent |-> res.k,
                with_agent_win_rate |-> Round1(agent_win_rate),
                without_agent_win_rate |-> Round1(overall_win_rate),
                difference |-> Round1(diff),
                games_with_agent |-> total,
                type |-> IF diff[1] > 0 THEN "strength" ELSE "weakness"] >>
       ELSE <<>>

RECURSIVE AgentDependencies(_, _)
\* patterns.py:87  for agent, results in agent_match_results.items()
AgentDependencies(results, overall_win_rate) ==
    IF results = <<>> THEN <<>>
    ELSE AgentDependency(results[1], overall_win_rate)
         \o AgentDependencies(Tail(results), overall_win_rate)

\* patterns.py:60-106
detect_agent_dependencies(team_history, seed) ==
    StableSort(
        AgentDependencies(
            AgentMatchResults(team_history.team, team_history.matches, seed),
            team_history.win_rate),
        BiggerDifference)

\* patterns.py:122-126  win fraction of the results older than the first three
OlderRate(form) ==
    LET older_wins == IF Len(form) > FormWindow
                      THEN Count(SubSeq(form, FormWindow + 1, Len(form)), "W")
                      ELSE 0
        older_total == IF Len(form) > FormWindow THEN Len(form) - FormWindow ELSE 1
    IN IF older_total > 0 THEN Rat(older_wins, older_total) ELSE Rat(1, 2)

\* a streak that counts every result equal to the most recent one
CurrentStreak_Scattered(form) == Count(form, form[1])

\* patterns.py:139-145  length of the run of equal results at the head
CurrentStreak(form) ==
    Cardinality({i \in 1..Len(form) : \A j \in 2..i : form[j] = form[j - 1]})

\* patterns.py:108-154
detect_form_patterns(team_history) ==
    LET form == team_history.recent_form
        recent_wins == Count(SubSeq(form, 1, FormWindow), "W")
        recent_rate == Rat(recent_wins, FormWindow)
        older_rate == OlderRate(form)
        trend == IF RLess(RAdd(older_rate, Rat(2, 10)), recent_rate)
                 THEN "improving"
                 ELSE IF RLess(recent_rate, RSub(older_rate, Rat(2, 10)))
                 THEN "declining"
                 ELSE "stable"
        momentum == IF trend = "improving" THEN "positive"
                    ELSE IF trend = "declining" THEN "negative"
                    ELSE "neutral"
        streak_type == form[1]
    IN IF Len(form) < FormWindow
       THEN [trend |-> "insufficient_data",
             momentum |-> "neutral",
             description |-> <<"Not enough recent matches to determine form">>]
       ELSE [trend |-> trend,
             momentum |-> momentum,
             current_streak |-> CurrentStreak(form),
             streak_type |-> IF streak_type = "W" THEN "winning" ELSE "losing",
             recent_record |-> <<recent_wins, FormWindow - recent_wins>>,
             description |-> <<CurrentStreak(form),
                               IF streak_type = "W" THEN "win" ELSE "loss",
                               trend>>]


\* every overall strength rated high
OverallStrength_AlwaysHigh(opponent) ==
    IF RLeq(RInt(60), opponent.win_rate)
    THEN << [category |-> "Overall Performance",
             description |-> <<"High overall win rate", Round1(opponent.win_rate)>>,
             metric |-> <<Round1(opponent.win_rate), opponent.total_matches>>,
             severity |-> "high"] >>
    ELSE <<>>

\* patterns.py:164-170
OverallStrength(opponent) ==
    IF RLeq(RInt(60), opponent.win_rate)
    THEN << [category |-> "Overall Performance",
             description |-> <<"High overall win rate", Round1(opponent.win_rate)>>,
             metric |-> <<Round1(opponent.win_rate), opponent.total_matches>>,
             severity |-> IF RLeq(RInt(70), opponent.win_rate)
                          THEN "high" ELSE "medium"] >>
    ELSE <<>>

RECURSIVE MapDominance_TwoGames(_)
MapDominance_TwoGames(map_stats) ==
    IF map_stats = <<>> THEN <<>>
    ELSE LET st == map_stats[1]
         IN (IF st.played >= 2 /\ RLeq(RInt(70), st.win_rate)
             THEN << [category |-> "Map Dominance",
                      description |-> <<"Dominant on", st.k>>,
                      metric |-> <<Round1(st.win_rate), st.k, st.wins,
                                   st.played - st.wins>>,
                      severity |-> "high"] >>
             ELSE <<>>)
            \o MapDominance_TwoGames(Tail(map_stats))

RECURSIVE MapDominance(_)
\* patterns.py:173-180
MapDominance(map_stats) ==
    IF map_stats = <<>> THEN <<>>
    ELSE LET st == map_stats[1]
         IN (IF st.played >= 3 /\ RLeq(RInt(70), st.win_rate)
             THEN << [category |-> "Map Dominance",
                      description |-> <<"Dominant on", st.k>>,
                      metric |-> <<Round1(st.win_rate), st.k, st.wins,
                                   st.played - st.wins>>,
                      severity |-> "high"] >>
             ELSE <<>>)
            \o MapDominance(Tail(map_stats))

\* a momentum strength emitted unless the momentum is negative
MomentumStrength_NotNegative(form_pattern) ==
    IF form_pattern.momentum # "negative"
    THEN << [category |-> "Momentum",
             description |-> <<"Currently in strong form">>,
             metric |-> form_pattern.description,
             severity |-> "medium"] >>
    ELSE <<>>

\* patterns.py:183-190
MomentumStrength(form_pattern) ==
    IF form_pattern.momentum = "positive"
    THEN << [category |-> "Momentum",
             description |-> <<"Currently in strong form">>,
             metric |-> form_pattern.description,
             severity |-> "medium"] >>
    ELSE <<>>

RECURSIVE AgentMastery(_)
\* patterns.py:194-201
AgentMastery(deps) ==
    IF deps = <<>> THEN <<>>
    ELSE LET dep == deps[1]
         IN (IF dep.type = "strength" /\ dep.difference > 150
             THEN << [category |-> "Agent Mastery",
                      description |-> <<"Strong with", dep.agent>>,
                      metric |-> <<dep.with_agent_win_rate, dep.agent,
                                   dep.games_with_agent>>,
                      severity |-> "medium"] >>
             ELSE <<>>)
            \o AgentMastery(Tail(deps))

\* patterns.py:156-203
detect_opponent_strengths(d, seed) ==
    LET opponent == d.team_b
        strengths ==
            OverallStrength(opponent)
            \o MapDominance(opponent.map_stats)
            \o MomentumStrength(detect_form_patterns(opponent))
            \o AgentMastery(Take(detect_agent_dependencies(opponent, seed), 2))
    IN Take(strengths, 5)

RECURSIVE MapWeakness(_)
\* patterns.py:213-221
MapWeakness(map_stats) ==
    IF map_stats = <<>> THEN <<>>
    ELSE LET st == map_stats[1]
         IN (IF st.played >= 2 /\ RLeq(st.win_rate, RInt(40))
             THEN << [category |-> "Map Weakness",
                      description |-> <<"Struggles on", st.k>>,
                      metric |-> <<Round1(st.win_rate), st.k, st.wins,
                                   st.played - st.wins>>,
                      exploitability |-> "high",
                      recommendation |-> <<"Pick", st.k, "in veto phase">>] >>
             ELSE <<>>)
            \o MapWeakness(Tail(map_stats))

\* patterns.py:224-232
PoorForm(form_pattern) ==
    IF form_pattern.momentum = "negative"
    THEN << [category |-> "Poor Form",
             description |-> <<"Currently in declining form">>,
             metric |-> form_pattern.description,
             exploitability |-> "medium",
             recommendation |->
                 <<"Apply early pressure to compound momentum issues">>] >>
    ELSE <<>>

RECURSIVE WeakAgents(_)
\* patterns.py:236-244
WeakAgents(deps) ==
    IF deps = <<>> THEN <<>>
    ELSE LET dep == deps[1]
         IN (IF dep.type = "weakness" /\ dep.difference < -150
             THEN << [category |-> "Agent Dependency",
                      description |-> <<"Weaker with", dep.agent>>,
                      metric |-> <<dep.with_agent_win_rate, dep.agent>>,
                      exploitability |-> "medium",
                      recommendation |->
                          <<"Force uncomfortable agent compositions">>] >>
             ELSE <<>>)
            \o WeakAgents(Tail(deps))

\* patterns.py:247-264
HeavyReliance(opponent, agent_deps) ==
    LET more(x, y) == x.n > y.n
        top_agents == StableSort(opponent.agent_picks, more)
        top_agent == top_agents[1].k
        count == top_agents[1].n
        total_picks == SumSeq([i \in 1..Len(opponent.agent_picks) |->
                                  opponent.agent_picks[i].n])
        reliance == Rat(count * 100, total_picks)
        hits == {i \in 1..Len(agent_deps) :
                    agent_deps[i].agent = top_agent
                    /\ agent_deps[i].type = "strength"}
        dep == agent_deps[CHOOSE i \in hits : \A j \in hits : i <= j]
    IN IF top_agents = <<>> THEN <<>>
       ELSE IF total_picks > 0 /\ RLess(RInt(30), reliance) /\ hits # {}
       THEN << [category |-> "Agent Dependency",
                description |-> <<"Heavy reliance on", top_agent>>,
                metric |-> <<Round1(reliance), top_agent, dep.difference>>,
                exploitability |-> "high",
                recommendation |-> <<"Banning or countering", top_agent>>] >>
       ELSE <<>>

\* patterns.py:205-266
detect_opponent_weaknesses(d, seed) ==
    LET opponent == d.team_b
        agent_deps == detect_agent_dependencies(opponent, seed)
        weaknesses ==
            MapWeakness(opponent.map_stats)
            \o PoorForm(detect_form_patterns(opponent))
            \o WeakAgents(agent_deps)
            \o HeavyReliance(opponent, agent_deps)
    IN Take(weaknesses, 5)

\* patterns.py:279-288, 305-306  (map, win_rate) of the maps played twice or more
PlayedMaps(map_stats) ==
    LET enough(st) == st.played >= 2
    IN SelectSeq(map_stats, enough)

LowerWinRate(x, y) == RLess(x.win_rate, y.win_rate)

HigherWinRate(x, y) == RLess(y.win_rate, x.win_rate)

\* patterns.py:293-302
MapPick(ours, theirs) ==
    LET advantage == RSub(ours.win_rate, theirs.win_rate)
    IN IF ours.k = theirs.k /\ RLeq(RInt(55), ours.win_rate)
          /\ RLeq(theirs.win_rate, RInt(50))
       THEN << [action |-> <<"Pick", ours.k>>,
                type |-> "map_pick",
                reasoning |-> <<Round1(ours.win_rate), Round1(theirs.win_rate)>>,
                expected_impact |-> Round1(advantage),
                confidence |-> IF RLess(RInt(20), advantage)
                               THEN "high" ELSE "medium",
                grid_data |-> <<ours.wins, ours.played - ours.wins,
                                theirs.wins, theirs.played - theirs.wins>>] >>
       ELSE <<>>

RECURSIVE MapPicksFor(_, _)
\* patterns.py:292  for opp_map, opp_wr in opponent_worst_maps[:3]
MapPicksFor(ours, worst) ==
    IF worst = <<>> THEN <<>>
    ELSE MapPick(ours, worst[1]) \o MapPicksFor(ours, Tail(worst))

RECURSIVE MapPicks(_, _)
\* patterns.py:291  for our_map, our_wr in our_best_maps[:3]
MapPicks(best, worst) ==
    IF best = <<>> THEN <<>>
    ELSE MapPicksFor(best[1], worst) \o MapPicks(Tail(best), worst)

RECURSIVE MapBans_Above(_)
MapBans_Above(best) ==
    IF best = <<>> THEN <<>>
    ELSE LET st == best[1]
         IN (IF RLess(RInt(60), st.win_rate)
             THEN << [action |-> <<"Ban", st.k>>,
                      type |-> "map_ban",
                      reasoning |-> <<Round1(st.win_rate)>>,
                      expected_impact |-> "Removes their best map option",
                      confidence |-> "high",
                      grid_data |-> <<st.k, st.wins, st.played - st.wins>>] >>
             ELSE <<>>)
            \o MapBans_Above(Tail(best))

RECURSIVE MapBans(_)
\* patterns.py:311-320
MapBans(best) ==
    IF best = <<>> THEN <<>>
    ELSE LET st == best[1]
         IN (IF RLeq(RInt(60), st.win_rate)
             THEN << [action |-> <<"Ban", st.k>>,
                      type |-> "map_ban",
                      reasoning |-> <<Round1(st.win_rate)>>,
                      expected_impact |-> "Removes their best map option",
                      confidence |-> "high",
                      grid_data |-> <<st.k, st.wins, st.played - st.wins>>] >>
             ELSE <<>>)
            \o MapBans(Tail(best))

RECURSIVE AgentCounters(_)
\* patterns.py:324-333
AgentCounters(deps) ==
    IF deps = <<>> THEN <<>>
    ELSE LET dep == deps[1]
         IN (IF dep.type = "strength" /\ dep.difference > 200
             THEN << [action |-> <<"Counter/Ban", dep.agent>>,
                      type |-> "agent_strategy",
                      reasoning |-> <<Abs(dep.difference), dep.agent>>,
                      expected_impact |-> "Forces suboptimal compositions",
                      confidence |-> "medium",
                      grid_data |-> <<dep.agent, dep.with_agent_win_rate,
                                      dep.games_with_agent>>] >>
             ELSE <<>>)
            \o AgentCounters(Tail(deps))

\* patterns.py:338-349
FocusStar(opponent_stars) ==
    IF opponent_stars = <<>> THEN <<>>
    ELSE LET star == opponent_stars[1]
         IN << [action |-> <<"Focus", star.name>>,
                type |-> "tactical",
                reasoning |-> <<star.avg_acs, star.kd_ratio>>,
                expected_impact |->
                    "Disrupting their star player reduces team effectiveness",
                confidence |-> "high",
                grid_data |-> <<star.name, star.avg_acs, star.kd_ratio,
                                star.most_played_agent>>] >>

generate_recommendations_StarFirst(d, seed) ==
    LET opponent == d.team_b
        our_team == d.team_a
        opponent_worst_maps == StableSort(PlayedMaps(opponent.map_stats),
                                          LowerWinRate)
        our_best_maps == StableSort(PlayedMaps(our_team.map_stats),
                                    HigherWinRate)
        opponent_best_maps == StableSort(PlayedMaps(opponent.map_stats),
                                         HigherWinRate)
        recommendations ==
            FocusStar(get_star_players(opponent, 1))
            \o MapPicks(Take(our_best_maps, 3), Take(opponent_worst_maps, 3))
            \o MapBans(Take(opponent_best_maps, 2))
            \o AgentCounters(Take(detect_agent_dependencies(opponent, seed), 2))
    IN Take(recommendations, 6)

generate_recommendations_CapFive(d, seed) ==
    LET opponent == d.team_b
        our_team == d.team_a
        opponent_worst_maps == StableSort(PlayedMaps(opponent.map_stats),
                                          LowerWinRate)
        our_best_maps == StableSort(PlayedMaps(our_team.map_stats),
                                    HigherWinRate)
        opponent_best_maps == StableSort(PlayedMaps(opponent.map_stats),
                                         HigherWinRate)
        recommendations ==
            MapPicks(Take(our_best_maps, 3), Take(opponent_worst_maps, 3))
            \o MapBans(Take(opponent_best_maps, 2))
            \o AgentCounters(Take(detect_agent_dependencies(opponent, seed), 2))
            \o FocusStar(get_star_players(opponent, 1))
    IN Take(recommendations, 5)

\* patterns.py:268-351
generate_recommendations(d, seed) ==
    LET opponent == d.team_b
        our_team == d.team_a
        opponent_worst_maps == StableSort(PlayedMaps(opponent.map_stats),
                                          LowerWinRate)
        our_best_maps == StableSort(PlayedMaps(our_team.map_stats),
                                    HigherWinRate)
        opponent_best_maps == StableSort(PlayedMaps(opponent.map_stats),
                                         HigherWinRate)
        recommendations ==
            MapPicks(Take(our_best_maps, 3), Take(opponent_worst_maps, 3))
            \o MapBans(Take(opponent_best_maps, 2))
            \o AgentCounters(Take(detect_agent_dependencies(opponent, seed), 2))
            \o FocusStar(get_star_players(opponent, 1))
    IN Take(recommendations, 6)

\* ------------------------------------------------- ScoutingReportBuilder
\* report_builder.py:172-190
build_match_overview(d) ==
    LET opponent_stats == calculate_overall_stats(d.team_b)
    IN [team_a_name |-> d.team_a.team.id,
        team_b_name |-> d.team_b.team.id,
        matches_analyzed_team_a |-> d.team_a.total_matches,
        matches_analyzed_team_b |-> d.team_b.total_matches,
        analysis_time_window_days |-> d.time_window_days,
        opponent_overall_win_rate |-> opponent_stats.win_rate,
        opponent_recent_form |-> opponent_stats.recent_form,
        opponent_recent_form_summary |-> opponent_stats.recent_form_summary,
        head_to_head_record |-> calculate_head_to_head_stats(d)]

\* the snapshot's best maps read from our own history
build_opponent_snapshot_OurBestMaps(d) ==
    [best_maps |-> get_best_maps(d.team_a, DefaultTopMaps),
     worst_maps |-> get_worst_maps(d.team_b, DefaultTopMaps),
     most_played_agents |-> get_most_played_agents(d.team_b, DefaultTopAgents),
     star_players |-> get_star_players(d.team_b, DefaultTopStars)]

\* report_builder.py:192-199
build_opponent_snapshot(d) ==
    [best_maps |-> get_best_maps(d.team_b, DefaultTopMaps),
     worst_maps |-> get_worst_maps(d.team_b, DefaultTopMaps),
     most_played_agents |-> get_most_played_agents(d.team_b, DefaultTopAgents),
     star_players |-> get_star_players(d.team_b, DefaultTopStars)]

\* report_builder.py:201-214
build_strengths(d, seed) ==
    LET detected == Take(detect_opponent_strengths(d, seed), 3)
    IN [i \in 1..Len(detected) |->
          [category |-> detected[i].category,
           description |-> detected[i].description,
           metric |-> detected[i].metric,
           severity |-> detected[i].severity]]

\* report_builder.py:216-229
build_weaknesses(d, seed) ==
    LET detected == Take(detect_opponent_weaknesses(d, seed), 3)
    IN [i \in 1..Len(detected) |->
          [category |-> detected[i].category,
           description |-> detected[i].description,
           metric |-> detected[i].metric,
           exploitability |-> detected[i].exploitability]]

\* every detected recommendation put in the report
build_recommendations_Uncut(d, seed) ==
    generate_recommendations(d, seed)

\* report_builder.py:231-246
build_recommendations(d, seed) ==
    Take(generate_recommendations(d, seed), 5)

\* report_builder.py:138-150
RawStats(team_history) ==
    [overall |-> calculate_overall_stats(team_history),
     maps |-> calculate_map_stats(team_history),
     agents |-> calculate_agent_stats(team_history),
     players |-> calculate_player_stats(team_history)]

\* report_builder.py:118-170; now is datetime.now() in whole seconds
build_report(d, seed, now) ==
    [report_id |-> <<"scout", d.team_a.team.short_name,
                     d.team_b.team.short_name, now>>,
     generated_at |-> now,
     data_source |-> "GRID Esports API",
     match_overview |-> build_match_overview(d),
     opponent_snapshot |-> build_opponent_snapshot(d),
     key_strengths |-> build_strengths(d, seed),
     exploitable_weaknesses |-> build_weaknesses(d, seed),
     coach_recommendations |-> build_recommendations(d, seed),
     team_a_stats |-> RawStats(d.team_a),
     team_b_stats |-> RawStats(d.team_b)]


\* ------------------------------------------------------ match records
\* models.py:81-88  a MapResult seen from `team`: the winner scored 13
MapResultOf(team, is_team_a, map_name, won, loser_score) ==
    LET mine == IF won THEN 13 ELSE loser_score
        theirs == IF won THEN loser_score ELSE 13
    IN [map_name |-> map_name,
        team_a_score |-> IF is_team_a THEN mine ELSE theirs,
        team_b_score |-> IF is_team_a THEN theirs ELSE mine,
        winner_team_id |-> IF won THEN team.id ELSE Other]

\* models.py:118-133  a Match of `team` against another team
MatchOf(team, is_team_a, won, date, games, picks, stats) ==
    [team_a_id |-> IF is_team_a THEN team.id ELSE Other,
     team_b_id |-> IF is_team_a THEN Other ELSE team.id,
     winner_team_id |-> IF won THEN team.id ELSE Other,
     date |-> date,
     maps_played |-> [i \in 1..Len(games) |->
                        MapResultOf(team, is_team_a, games[i][1], games[i][2],
                                    games[i][3])],
     agent_picks |-> picks,
     player_stats |-> stats]

\* models.py:91-97
Pick(player_id, agent) == [player_id |-> player_id, agent |-> agent]

\* models.py:100-115
Stat(player_id, agent, kills, deaths, acs, adr, first_kills, first_deaths) ==
    [player_id |-> player_id, player_name |-> player_id, agent |-> agent,
     kills |-> kills, deaths |-> deaths, assists |-> 5, acs |-> acs,
     adr |-> adr, first_kills |-> first_kills, first_deaths |-> first_deaths]

\* the first and second player of a roster, and a player of another team
P1(team) == team.roster[1]

P2(team) == team.roster[Len(team.roster)]

Outsider == "x1"

\* match records of `team` the data provider can return (small lists)
MatchPool(team) ==
    { MatchOf(team, TRUE, TRUE, 3,
              << <<"Ascent", TRUE, 7>>, <<"Bind", TRUE, 11>> >>,
              << Pick(P1(team), "Jett"), Pick(P2(team), "Sova") >>,
              << Stat(P1(team), "Jett", 20, 10, 250, 150, 3, 1),
                 Stat(P2(team), "Sova", 15, 15, 200, 130, 1, 2) >>),
      MatchOf(team, FALSE, TRUE, 2,
              << <<"Ascent", FALSE, 5>>, <<"Bind", TRUE, 9>>,
                 <<"Ascent", TRUE, 11>> >>,
              << Pick(P1(team), "Jett"), Pick(Outsider, "Sova") >>,
              << Stat(P1(team), "Sova", 18, 0, 230, 140, 2, 2),
                 Stat(Outsider, "Jett", 30, 5, 320, 200, 5, 0) >>),
      MatchOf(team, TRUE, FALSE, 2,
              << <<"Bind", FALSE, 9>>, <<"Bind", FALSE, 3>> >>,
              << Pick(P1(team), "Sova"), Pick(P2(team), "Sova") >>,
              << Stat(P2(team), "Sova", 12, 20, 180, 120, 0, 4) >>),
      MatchOf(team, FALSE, FALSE, 1,
              << <<"Bind", FALSE, 11>>, <<"Ascent", TRUE, 7>> >>,
              << >>, << >>),
      MatchOf(team, TRUE, FALSE, 1, << >>,
              << Pick(P1(team), "Jett"), Pick(P2(team), "Sova") >>, << >>) }

RECURSIVE ListsUpTo(_, _)
\* all sequences over S of length at most n
ListsUpTo(S, n) ==
    IF n = 0 THEN {<<>>}
    ELSE LET shorter == ListsUpTo(S, n - 1)
         IN shorter \cup {Append(l, x) : l \in shorter, x \in S}

Repeat(x, n) == [i \in 1..n |-> x]

\* a long history of team B made of four kinds of match
BulkMatches(c1, c2, c3, c4) ==
    Repeat(MatchOf(TeamB, TRUE, TRUE, 1, << <<"Ascent", TRUE, 7>> >>,
                   << Pick("b1", "Jett"), Pick("b2", "Sova") >>, << >>), c1)
    \o Repeat(MatchOf(TeamB, TRUE, FALSE, 1, << <<"Ascent", FALSE, 9>> >>,
                      << Pick("b1", "Jett") >>, << >>), c2)
    \o Repeat(MatchOf(TeamB, FALSE, TRUE, 1, << <<"Bind", FALSE, 11>> >>,
                      << >>, << >>), c3)
    \o Repeat(MatchOf(TeamB, FALSE, FALSE, 1, << <<"Bind", TRUE, 5>> >>,
                      << Pick("b2", "Sova") >>, << >>), c4)

\* a history of team B given by its results, most recent first
FormMatches(form) ==
    [i \in 1..Len(form) |->
        MatchOf(TeamB, TRUE, form[i] = "W", Len(form) - i, << >>, << >>, << >>)]

\* what a team did on one map over two matches: the games it played there
MapProfiles ==
    { << >>,
      << <<TRUE, 7>> >>,
      << <<TRUE, 7>>, <<TRUE, 9>> >>,
      << <<TRUE, 7>>, <<FALSE, 7>> >>,
      << <<TRUE, 11>>, <<FALSE, 5>> >>,
      << <<FALSE, 7>>, <<FALSE, 7>> >> }

MapPoolNames == <<"Ascent", "Bind", "Haven", "Split", "Icebox", "Breeze",
                  "Fracture", "Pearl", "Lotus", "Sunset", "Abyss">>

\* two matches of team B in which map i was played as profile[i] says
ProfileMatches(profile) ==
    LET games(g) ==
            LET played(i) == Len(profile[i]) >= g
                idx == SelectSeq([i \in 1..Len(profile) |-> i], played)
            IN [j \in 1..Len(idx) |->
                  <<MapPoolNames[idx[j]], profile[idx[j]][g][1],
                    profile[idx[j]][g][2]>>]
    IN << MatchOf(TeamB, TRUE, TRUE, 2, games(1), << >>, << >>),
          MatchOf(TeamB, FALSE, FALSE, 1, games(2), << >>, << >>) >>

\* the orders in which a process can iterate over a set of agent names
SetOrders(S) ==
    {p \in [1..Cardinality(S) -> S] : \A i, j \in 1..Cardinality(S) :
                                          i # j => p[i] # p[j]}

\* ----------------------------------------------------------- state machine
TimeWindowDays == 90

\* matches used when reports are built
ReportPool(team) ==
    { MatchOf(team, TRUE, TRUE, 3,
              << <<"Ascent", TRUE, 7>>, <<"Bind", TRUE, 11>> >>,
              << Pick(P1(team), "Jett"), Pick(P2(team), "Sova") >>,
              << Stat(P1(team), "Jett", 20, 10, 250, 150, 3, 1),
                 Stat(P2(team), "Sova", 15, 15, 200, 130, 1, 2) >>),
      MatchOf(team, TRUE, FALSE, 2,
              << <<"Bind", FALSE, 9>>, <<"Bind", FALSE, 3>> >>,
              << Pick(P1(team), "Sova"), Pick(P2(team), "Sova") >>,
              << Stat(P2(team), "Sova", 12, 20, 180, 120, 0, 4) >>),
      MatchOf(team, FALSE, FALSE, 1,
              << <<"Ascent", TRUE, 7>>, <<"Bind", FALSE, 11>> >>,
              << >>, << >>) }

\* our own history: none, or two matches with Ascent won twice
OurHistories ==
    { << >>,
      << MatchOf(TeamA, TRUE, TRUE, 2,
                 << <<"Ascent", TRUE, 7>>, <<"Bind", FALSE, 11>> >>,
                 << Pick("a1", "Jett") >>,
                 << Stat("a1", "Jett", 22, 11, 260, 160, 2, 1) >>),
         MatchOf(TeamA, FALSE, FALSE, 1,
                 << <<"Ascent", TRUE, 9>>, <<"Bind", TRUE, 5>> >>,
                 << >>, << >>) >> }

\* head-to-head lists: none, or one match of A against B won by B
HeadToHeads ==
    { << >>,
      << [team_a_id |-> "A", team_b_id |-> "B", winner_team_id |-> "B",
          date |-> 1,
          maps_played |-> << [map_name |-> "Ascent", team_a_score |-> 13,
                              team_b_score |-> 9, winner_team_id |-> "A"],
                             [map_name |-> "Bind", team_a_score |-> 5,
                              team_b_score |-> 13, winner_team_id |-> "B"],
                             [map_name |-> "Ascent", team_a_score |-> 11,
                              team_b_score |-> 13, winner_team_id |-> "B"] >>,
          agent_picks |-> << >>, player_stats |-> << >>] >> }

InitWith(inputs) ==
    /\ input \in inputs
    /\ hashseed \in SetOrders(AgentNames)
    /\ data = NoData
    /\ pc = "start"
    /\ out = NoOut
    /\ clock = 0
    /\ reports = << >>

\* client.py:493-504  both histories are computed and packaged
FetchScoutingData ==
    /\ pc = "start"
    /\ data' = [team_a |-> compute_team_history(TeamA, input.a),
                team_b |-> compute_team_history(TeamB, input.b),
                head_to_head_matches |-> input.h2h,
                time_window_days |-> TimeWindowDays]
    /\ pc' = "ready"
    /\ UNCHANGED <<input, hashseed, out, clock, reports>>

\* Each analysis method is called on the fetched data (the opponent is
\* team_b) and its return value is kept in out.

\* stats.py:29-38
CalculateOverallStats ==
    /\ pc = "ready"
    /\ out' = [op |-> "calculate_overall_stats",
               val |-> calculate_overall_stats(data.team_b)]
    /\ UNCHANGED <<input, hashseed, data, pc, clock, reports>>

\* stats.py:59-84
CalculateMapStats ==
    /\ pc = "ready"
    /\ out' = [op |-> "calculate_map_stats",
               val |-> calculate_map_stats(data.team_b)]
    /\ UNCHANGED <<input, hashseed, data, pc, clock, reports>>

\* patterns.py:33-58
DetectMapDependencies ==
    /\ pc = "ready"
    /\ out' = [op |-> "detect_map_dependencies",
               val |-> detect_map_dependencies(data.team_b)]
    /\ UNCHANGED <<input, hashseed, data, pc, clock, reports>>

\* patterns.py:60-106
DetectAgentDependencies ==
    /\ pc = "ready"
    /\ out' = [op |-> "detect_agent_dependencies",
               val |-> detect_agent_dependencies(data.team_b, hashseed)]
    /\ UNCHANGED <<input, hashseed, data, pc, clock, reports>>

\* patterns.py:108-154
DetectFormPatterns ==
    /\ pc = "ready"
    /\ out' = [op |-> "detect_form_patterns",
               val |-> detect_form_patterns(data.team_b)]
    /\ UNCHANGED <<input, hashseed, data, pc, clock, reports>>

\* patterns.py:156-203
DetectOpponentStrengths ==
    /\ pc = "ready"
    /\ out' = [op |-> "detect_opponent_strengths",
               val |-> detect_opponent_strengths(data, hashseed)]
    /\ UNCHANGED <<input, hashseed, data, pc, clock, reports>>

\* patterns.py:205-266
DetectOpponentWeaknesses ==
    /\ pc = "ready"
    /\ out' = [op |-> "detect_opponent_weaknesses",
               val |-> detect_opponent_weaknesses(data, hashseed)]
    /\ UNCHANGED <<input, hashseed, data, pc, clock, reports>>

\* report_builder.py:192-199
BuildOpponentSnapshot ==
    /\ pc = "ready"
    /\ out' = [op |-> "build_opponent_snapshot",
               val |-> build_opponent_snapshot(data)]
    /\ UNCHANGED <<input, hashseed, data, pc, clock, reports>>

\* a report built while the opponent's map table is sorted where it stands
\* instead of in a copy
BuildReport_SortInPlace ==
    /\ pc = "ready"
    /\ Len(reports) < 2
    /\ reports' = Append(reports, [report |-> build_report(data, hashseed, clock),
                                   process |-> hashseed])
    /\ data' = [data EXCEPT !.team_b.map_stats = StableSort(@, LowerWinRate)]
    /\ UNCHANGED <<input, hashseed, pc, out, clock>>

\* report_builder.py:118-170, called from main.py:229-230
BuildReport ==
    /\ pc = "ready"
    /\ Len(reports) < 2
    /\ reports' = Append(reports, [report |-> build_report(data, hashseed, clock),
                                   process |-> hashseed])
    /\ UNCHANGED <<input, hashseed, data, pc, out, clock>>

\* wall-clock time passes
Tick ==
    /\ clock < MaxClock
    /\ clock' = clock + 1
    /\ UNCHANGED <<input, hashseed, data, pc, out, reports>>

\* run_server.py:18-25  the server is started again: a new interpreter
\* process, hence a new string hash seed, serving the same records
Restart ==
    /\ pc = "ready"
    /\ hashseed' \in SetOrders(AgentNames) \ {hashseed}
    /\ UNCHANGED <<input, data, pc, out, clock, reports>>

\* the request pipeline: fetch, then build reports
Init ==
    InitWith([a : OurHistories,
              b : ListsUpTo(ReportPool(TeamB), MaxMatches),
              h2h : HeadToHeads])

Next == FetchScoutingData \/ BuildReport \/ Tick \/ Restart

Spec == Init /\ [][Next]_vars

\* single analysis calls on short histories
InitOps ==
    InitWith([a : {<< >>}, b : ListsUpTo(MatchPool(TeamB), MaxMatches),
              h2h : {<< >>}])

NextOps ==
    \/ FetchScoutingData
    \/ CalculateOverallStats
    \/ CalculateMapStats
    \/ DetectMapDependencies
    \/ DetectAgentDependencies

SpecOps == InitOps /\ [][NextOps]_vars

\* dependency detection on long histories
InitBulk ==
    InitWith([a : {<< >>},
              b : {BulkMatches(c[1], c[2], c[3], c[4]) :
                      c \in (0..MaxBlock) \X (0..MaxBlock) \X (0..MaxBlock)
                            \X (0..MaxBlock)},
              h2h : {<< >>}])

NextBulk ==
    \/ FetchScoutingData
    \/ DetectMapDependencies
    \/ DetectAgentDependencies

SpecBulk == InitBulk /\ [][NextBulk]_vars

\* form analysis on every recent form
InitForm ==
    InitWith([a : {<< >>},
              b : {FormMatches(f) : f \in ListsUpTo({"W", "L"}, MaxForm)},
              h2h : {<< >>}])

NextForm ==
    \/ FetchScoutingData
    \/ DetectFormPatterns
    \/ DetectOpponentStrengths
    \/ DetectOpponentWeaknesses

SpecForm == InitForm /\ [][NextForm]_vars

\* best and worst maps on every combination of map records
InitMaps ==
    InitWith([a : {<< >>},
              b : {ProfileMatches(p) : p \in [1..MaxMaps -> MapProfiles]},
              h2h : {<< >>}])

NextMaps ==
    \/ FetchScoutingData
    \/ BuildOpponentSnapshot

SpecMaps == InitMaps /\ [][NextMaps]_vars


\* ------------------------------------------------------------ properties
Histories == IF pc = "ready" THEN {data.team_a, data.team_b} ELSE {}

\* C1: every aggregate built by _compute_team_history, and the overall stats
\* reported from it, has a win rate between 0 and 100, and a win rate of 0
\* when the team has no matches.
C1_WinRateInRange ==
    /\ \A h \in Histories :
          /\ RLeq(RInt(0), h.win_rate) /\ RLeq(h.win_rate, RInt(100))
          /\ h.total_matches = 0 => h.win_rate[1] = 0
    /\ out.op = "calculate_overall_stats" =>
          /\ out.val.win_rate >= 0 /\ out.val.win_rate <= 1000
          /\ out.val.total_matches = 0 => out.val.win_rate = 0

\* a team with wins and losses has had its overall stats reported
C1_Witness ==
    /\ out.op = "calculate_overall_stats"
    /\ out.val.total_matches = 3
    /\ out.val.win_rate = 667
    /\ data.team_b.win_rate = Rat(200, 3)

\* C2: in every aggregate the reported wins are the matches won by the team,
\* and the win rate is reported wins / total_matches * 100 (0 without matches).
C2_WinRateFromReportedWins ==
    \A h \in Histories :
        /\ h.wins = MatchWins(h.team, h.matches)
        /\ IF h.total_matches > 0
           THEN h.win_rate[1] * h.total_matches = h.wins * 100 * h.win_rate[2]
           ELSE h.win_rate[1] = 0


\* C3: every entry returned by detect_map_dependencies has games_played >= 2
\* and a reported difference strictly above 15 points in absolute value.
C3_MapDependencyBounds ==
    out.op = "detect_map_dependencies" =>
        \A i \in 1..Len(out.val) :
            /\ out.val[i].games_played >= 2
            /\ Abs(out.val[i].difference) > 150

\* C4: every entry returned by detect_agent_dependencies has at least 3
\* matches with the agent and a reported difference strictly above 10 points
\* in absolute value.
C4_AgentDependencyBounds ==
    out.op = "detect_agent_dependencies" =>
        \A i \in 1..Len(out.val) :
            /\ out.val[i].games_with_agent >= 3
            /\ Abs(out.val[i].difference) > 100

\* C5: the lists returned by detect_map_dependencies and
\* detect_agent_dependencies are ordered by absolute difference, largest
\* first: no entry is followed by one with a larger absolute difference.
C5_DependenciesSorted ==
    out.op \in {"detect_map_dependencies", "detect_agent_dependencies"} =>
        \A i \in 1..(Len(out.val) - 1) :
            Abs(out.val[i].difference) >= Abs(out.val[i + 1].difference)

\* both maps are dependencies, and the map met second in map_stats, whose
\* deviation is the larger, is listed first
C5_Witness ==
    /\ out.op = "detect_map_dependencies"
    /\ Len(out.val) = 2
    /\ Abs(out.val[1].difference) > Abs(out.val[2].difference)
    /\ out.val[1].map = data.team_b.map_stats[2].k
    /\ out.val[2].map = data.team_b.map_stats[1].k

\* the rule of the specification: most recent 3 against the remainder, the
\* remainder counting as 0.5 when it is empty, thresholds of 0.2
ClaimedTrend(form) ==
    LET recent == Rat(Count(SubSeq(form, 1, 3), "W"), 3)
        older == IF Len(form) > 3
                 THEN Rat(Count(SubSeq(form, 4, Len(form)), "W"), Len(form) - 3)
                 ELSE Rat(1, 2)
    IN IF RLess(RAdd(older, Rat(1, 5)), recent) THEN <<"improving", "positive">>
       ELSE IF RLess(recent, RSub(older, Rat(1, 5)))
       THEN <<"declining", "negative">>
       ELSE <<"stable", "neutral">>

\* C6: for a recent form of 3 to 5 results detect_form_patterns classifies
\* by the rule of the specification, with 0.5 as the older fraction when
\* there are exactly 3 results.
C6_FormClassification ==
    (out.op = "detect_form_patterns"
     /\ Len(data.team_b.recent_form) >= 3 /\ Len(data.team_b.recent_form) <= 5) =>
        <<out.val.trend, out.val.momentum>> = ClaimedTrend(data.team_b.recent_form)

\* the longest run of results equal to the most recent one, from the head
HeadRun(form) ==
    CHOOSE k \in 1..Len(form) :
        /\ \A i \in 1..k : form[i] = form[1]
        /\ k < Len(form) => form[k + 1] # form[1]

\* C7: for a recent form of at least 3 results, current_streak is the length
\* of the run of identical results starting at the most recent one and
\* streak_type is that result; W,W,W,L,L gives positive, improving, 3 wins.
C7_Streak ==
    (out.op = "detect_form_patterns" /\ Len(data.team_b.recent_form) >= 3) =>
        /\ out.val.current_streak = HeadRun(data.team_b.recent_form)
        /\ out.val.streak_type = IF data.team_b.recent_form[1] = "W"
                                 THEN "winning" ELSE "losing"
        /\ data.team_b.recent_form = <<"W", "W", "W", "L", "L">> =>
              /\ out.val.momentum = "positive"
              /\ out.val.trend = "improving"
              /\ out.val.current_streak = 3
              /\ out.val.streak_type = "winning"

\* the form W,L,W,W: a streak of one although three results are wins
C7_Witness ==
    /\ out.op = "detect_form_patterns"
    /\ data.team_b.recent_form = <<"W", "L", "W", "W">>
    /\ out.val.current_streak = 1
    /\ out.val.streak_type = "winning"

Categories(entries) == {entries[i].category : i \in 1..Len(entries)}

\* C8: with fewer than 3 recent results detect_form_patterns reports
\* insufficient data and neutral momentum without any streak field, and the
\* team gets neither a Momentum strength nor a Poor Form weakness.
C8_InsufficientData ==
    (pc = "ready" /\ Len(data.team_b.recent_form) < 3) =>
        /\ out.op = "detect_form_patterns" =>
              /\ out.val.trend = "insufficient_data"
              /\ out.val.momentum = "neutral"
              /\ "current_streak" \notin DOMAIN out.val
              /\ "streak_type" \notin DOMAIN out.val
        /\ out.op = "detect_opponent_strengths" =>
              "Momentum" \notin Categories(out.val)
        /\ out.op = "detect_opponent_weaknesses" =>
              "Poor Form" \notin Categories(out.val)

\* two wins only: the strengths were computed, and hold the win-rate entry
\* but no momentum entry
C8_Witness ==
    /\ out.op = "detect_opponent_strengths"
    /\ data.team_b.recent_form = <<"W", "W">>
    /\ Categories(out.val) = {"Overall Performance"}

\* the sort key of an entry of best_maps / worst_maps
KeyLess(x, y) ==
    \/ x.win_rate < y.win_rate
    \/ x.win_rate = y.win_rate /\ x.avg_round_diff < y.avg_round_diff

MapsOf(entries) == {entries[i].map : i \in 1..Len(entries)}

\* the maps of the opponent with at least 2 games
Qualifying ==
    {data.team_b.map_stats[i].k : i \in
        {j \in 1..Len(data.team_b.map_stats) :
            data.team_b.map_stats[j].played >= 2}}

Reversed(s) == [i \in 1..Len(s) |-> s[Len(s) + 1 - i]]

\* C9 as stated: with at least 2 qualifying maps, best_maps and worst_maps
\* have no map in common, best is in descending and worst in ascending order
\* of (win_rate, avg_round_diff), and over the same maps one list is the
\* exact reverse of the other.
C9_DisjointAndReversed ==
    (out.op = "build_opponent_snapshot" /\ Cardinality(Qualifying) >= 2) =>
        LET best == out.val.best_maps
            worst == out.val.worst_maps
        IN /\ MapsOf(best) \cap MapsOf(worst) = {}
           /\ \A i \in 1..(Len(best) - 1) : KeyLess(best[i + 1], best[i])
           /\ \A i \in 1..(Len(worst) - 1) : KeyLess(worst[i], worst[i + 1])
           /\ MapsOf(best) = MapsOf(worst) => worst = Reversed(best)

\* C9 amended: best_maps and worst_maps each hold min(3, q) of the q
\* qualifying maps, best in non-increasing and worst in non-decreasing order
\* of (win_rate, avg_round_diff); they share at least 2 * min(3, q) - q maps
\* (all of them when q <= 3); and when both hold the same maps and no two of
\* these tie on the key, worst is the exact reverse of best.
C9_InverseSortedSharing ==
    out.op = "build_opponent_snapshot" =>
        LET best == out.val.best_maps
            worst == out.val.worst_maps
            q == Cardinality(Qualifying)
            n == Min(DefaultTopMaps, q)
        IN /\ Len(best) = n /\ Len(worst) = n
           /\ Cardinality(MapsOf(best)) = n /\ Cardinality(MapsOf(worst)) = n
           /\ MapsOf(best) \subseteq Qualifying
           /\ MapsOf(worst) \subseteq Qualifying
           /\ \A i \in 1..(n - 1) : ~KeyLess(best[i], best[i + 1])
           /\ \A i \in 1..(n - 1) : ~KeyLess(worst[i + 1], worst[i])
           /\ Cardinality(MapsOf(best) \cap MapsOf(worst)) >= 2 * n - q
           /\ q <= DefaultTopMaps => MapsOf(best) = MapsOf(worst)
           /\ (/\ MapsOf(best) = MapsOf(worst)
               /\ \A i \in 1..(n - 1) : KeyLess(best[i + 1], best[i]))
              => worst = Reversed(best)

\* four qualifying maps with distinct keys: the lists share the two middle
\* maps, and neither is the reverse of the other
C9_Witness ==
    /\ out.op = "build_opponent_snapshot"
    /\ Cardinality(Qualifying) = 4
    /\ Len(out.val.best_maps) = 3
    /\ \A i \in 1..2 : KeyLess(out.val.best_maps[i + 1], out.val.best_maps[i])
    /\ Cardinality(MapsOf(out.val.best_maps) \cap MapsOf(out.val.worst_maps)) = 2
    /\ out.val.worst_maps # Reversed(out.val.best_maps)

\* C10: any two reports built from the same input records are equal in every
\* field except generated_at; report_id, the sections and both raw stats
\* blocks are equal.
C10_ReportsIdentical ==
    \A i, j \in 1..Len(reports) :
        [reports[i].report EXCEPT !.generated_at = 0]
            = [reports[j].report EXCEPT !.generated_at = 0]

\* ------------------------------------------------------ star players
\* matches of team B that differ in the order and values of their
\* player_stats lines: the same line for b1 and b2 in either order, a weaker
\* line for each alone, and a stronger line for b2 next to another team's
\* player
StarPool ==
    { MatchOf(TeamB, TRUE, TRUE, 1, << >>, << >>,
              << Stat("b2", "Sova", 20, 10, 250, 150, 3, 1),
                 Stat("b1", "Jett", 20, 10, 250, 150, 3, 1) >>),
      MatchOf(TeamB, TRUE, TRUE, 1, << >>, << >>,
              << Stat("b1", "Jett", 20, 10, 250, 150, 3, 1),
                 Stat("b2", "Sova", 20, 10, 250, 150, 3, 1) >>),
      MatchOf(TeamB, TRUE, FALSE, 1, << >>, << >>,
              << Stat("b1", "Sova", 15, 15, 200, 130, 1, 2) >>),
      MatchOf(TeamB, TRUE, FALSE, 1, << >>, << >>,
              << Stat("b2", "Jett", 15, 15, 200, 130, 1, 2) >>),
      MatchOf(TeamB, FALSE, TRUE, 1, << >>, << >>,
              << Stat(Outsider, "Jett", 30, 5, 320, 200, 5, 0),
                 Stat("b2", "Sova", 25, 10, 300, 160, 2, 2) >>) }

\* stats.py:218-242, called from report_builder.py:198 with the default top_n
GetStarPlayers ==
    /\ pc = "ready"
    /\ out' = [op |-> "get_star_players",
               val |-> get_star_players(data.team_b, DefaultTopStars)]
    /\ UNCHANGED <<input, hashseed, data, pc, clock, reports>>

\* star players of every short history over StarPool
InitStars ==
    InitWith([a : {<< >>}, b : ListsUpTo(StarPool, MaxMatches), h2h : {<< >>}])

NextStars ==
    \/ FetchScoutingData
    \/ GetStarPlayers

SpecStars == InitStars /\ [][NextStars]_vars

\* player names in the order in which strings sort
SortedNames == <<"a1", "b1", "b2", "x1">>

NameBefore(x, y) ==
    \E i, j \in 1..Len(SortedNames) :
        SortedNames[i] = x /\ SortedNames[j] = y /\ i < j

\* C11: get_star_players returns the top-N players by star score in
\* descending order, and of two returned players with equal scores the one
\* whose name sorts first comes first, whatever the order of the records.
C11_StarsByScoreThenName ==
    out.op = "get_star_players" =>
        LET stars == out.val
            everyone == get_star_players(data.team_b, MaxMatches * 2)
        IN /\ Len(stars) = Min(DefaultTopStars, Len(everyone))
           /\ \A i \in 1..Len(stars) : \A j \in 1..Len(everyone) :
                 (\A k \in 1..Len(stars) : everyone[j].name # stars[k].name)
                     => everyone[j].score <= stars[i].score
           /\ \A i \in 1..(Len(stars) - 1) :
                 \/ stars[i].score > stars[i + 1].score
                 \/ /\ stars[i].score = stars[i + 1].score
                    /\ NameBefore(stars[i].name, stars[i + 1].name)

\* --------------------------------------------------- recommendations
MaxRecMaps == 5

\* Len(results) matches of `team`, most recent first: match g holds the g-th
\* game of every map i that has one in profile[i] (TRUE for a game won, the
\* loser scoring 7), is won when results[g] is "W", and carries the agent
\* picks picks[g] and the player lines stats[g]
SeriesMatches(team, profile, results, picks, stats) ==
    LET n == Len(results)
        games(g) ==
            LET played(i) == Len(profile[i]) >= g
                idx == SelectSeq([i \in 1..Len(profile) |-> i], played)
            IN [j \in 1..Len(idx) |->
                  <<MapPoolNames[idx[j]], profile[idx[j]][g], 7>>]
    IN [g \in 1..n |->
          MatchOf(team, TRUE, results[g] = "W", n - g, games(g),
                  picks[g], stats[g])]

\* all sequences over S of length exactly n
RECURSIVE ListsOf(_, _)
ListsOf(S, n) ==
    IF n = 0 THEN {<<>>}
    ELSE {Append(l, x) : l \in ListsOf(S, n - 1), x \in S}

NoLines == [g \in 1..5 |-> << >>]

\* our own histories: four strong maps, the fourth the weakest; or a strong,
\* a balanced and a strong map
OurProfiles ==
    { << <<TRUE, TRUE>>, <<TRUE, TRUE>>, <<TRUE, TRUE>>,
         <<TRUE, TRUE, FALSE>> >>,
      << <<TRUE, TRUE, FALSE>>, <<TRUE, FALSE>>, <<TRUE, TRUE>> >> }

OurSeries ==
    {SeriesMatches(TeamA, p, <<"W", "L", "W">>, NoLines, NoLines) :
        p \in OurProfiles}

\* what the opponent did on one map: 2-0 (100%), 3-2 (60%) or 1-1 (50%)
OppGames ==
    {<<TRUE, TRUE>>, <<TRUE, TRUE, TRUE, FALSE, FALSE>>, <<TRUE, FALSE>>}

\* the opponent's matches besides the maps: five matches, three of them won;
\* without picks or player lines, with a player line in the most recent
\* match, or with that line and Jett picked in the wins only, Sova always
StarLine ==
    [g \in 1..5 |-> IF g = 1
                    THEN << Stat("b1", "Jett", 20, 10, 250, 150, 3, 1) >>
                    ELSE << >>]

JettInWins ==
    [g \in 1..5 |-> IF g <= 3
                    THEN << Pick("b1", "Jett"), Pick("b2", "Sova") >>
                    ELSE << Pick("b2", "Sova") >>]

OppLines ==
    { <<NoLines, NoLines>>, <<NoLines, StarLine>>, <<JettInWins, StarLine>> }

OppSeries ==
    {SeriesMatches(TeamB, p, <<"W", "W", "W", "L", "L">>, l[1], l[2]) :
        p \in UNION {ListsOf(OppGames, n) : n \in 0..MaxRecMaps},
        l \in OppLines}

\* patterns.py:268-351
GenerateRecommendations ==
    /\ pc = "ready"
    /\ out' = [op |-> "generate_recommendations",
               val |-> generate_recommendations(data, hashseed)]
    /\ UNCHANGED <<input, hashseed, data, pc, clock, reports>>

InitRecs == InitWith([a : OurSeries, b : OppSeries, h2h : {<< >>}])

NextRecs ==
    \/ FetchScoutingData
    \/ GenerateRecommendations

SpecRecs == InitRecs /\ [][NextRecs]_vars

TypesOf(recs) == [i \in 1..Len(recs) |-> recs[i].type]

TypeRank(type) ==
    CASE type = "map_pick" -> 1
      [] type = "map_ban" -> 2
      [] type = "agent_strategy" -> 3
      [] type = "tactical" -> 4

\* C12: generate_recommendations returns at most 6 recommendations, and
\* their types never go back in the order map_pick, map_ban, agent_strategy,
\* tactical; there is at most one tactical recommendation.
C12_CappedInDiscoveryOrder ==
    out.op = "generate_recommendations" =>
        /\ Len(out.val) <= 6
        /\ \A i \in 1..Len(out.val) :
              out.val[i].type \in {"map_pick", "map_ban", "agent_strategy",
                                   "tactical"}
        /\ \A i, j \in 1..Len(out.val) :
              i < j => TypeRank(out.val[i].type) <= TypeRank(out.val[j].type)
        /\ Cardinality({i \in 1..Len(out.val) : out.val[i].type = "tactical"})
              <= 1

\* three picks, two bans and one agent recommendation fill the list, and
\* the tactical recommendation found after them is cut
C12_Witness ==
    /\ out.op = "generate_recommendations"
    /\ TypesOf(out.val) = <<"map_pick", "map_pick", "map_pick", "map_ban",
                            "map_ban", "agent_strategy">>
    /\ get_star_players(data.team_b, 1) # << >>

\* the entry of map m in an aggregate's map_stats, in a set
MapEntry(map_stats, m) ==
    {map_stats[i] : i \in {j \in 1..Len(map_stats) : map_stats[j].k = m}}

\* we are strong on m and the opponent is weak on it
Favourable(m) ==
    \E o \in MapEntry(data.team_a.map_stats, m),
       t \in MapEntry(data.team_b.map_stats, m) :
        /\ o.played >= 2 /\ RLeq(RInt(55), o.win_rate)
        /\ t.played >= 2 /\ RLeq(t.win_rate, RInt(50))

RecsOfType(recs, type) ==
    {recs[i] : i \in {j \in 1..Len(recs) : recs[j].type = type}}

\* C13: every map on which we have at least 2 games and a win rate of at
\* least 55 and the opponent has at least 2 games and a win rate of at most
\* 50 gets a map_pick recommendation 'Pick M' whose expected impact is our
\* win rate minus theirs and whose confidence is high exactly when that gap
\* exceeds 20 (medium otherwise); no other map gets a map_pick.
C13_PickForEveryFavourableMap ==
    out.op = "generate_recommendations" =>
        LET picks == RecsOfType(out.val, "map_pick")
        IN /\ \A m \in {MapPoolNames[i] : i \in 1..Len(MapPoolNames)} :
                Favourable(m) =>
                    \E r \in picks,
                       o \in MapEntry(data.team_a.map_stats, m),
                       t \in MapEntry(data.team_b.map_stats, m) :
                        LET gap == RSub(o.win_rate, t.win_rate)
                        IN /\ r.action = <<"Pick", m>>
                           /\ r.expected_impact = Round1(gap)
                           /\ r.confidence = IF RLess(RInt(20), gap)
                                             THEN "high" ELSE "medium"
           /\ \A r \in picks : Favourable(r.action[2])

\* the opponent's maps with at least 2 games and a win rate of at least 60,
\* by win rate descending, the first two
StrongestTwo ==
    LET strong(st) == st.played >= 2 /\ RLeq(RInt(60), st.win_rate)
    IN Take(StableSort(SelectSeq(data.team_b.map_stats, strong),
                       HigherWinRate), 2)

BansOf(recs) ==
    LET ban(r) == r.type = "map_ban"
    IN SelectSeq(recs, ban)

\* C14: the map_ban recommendations are, in order, 'Ban M' with confidence
\* high for the first 2 of the opponent's maps with at least 2 games and a
\* win rate of at least 60 sorted by win rate descending, and for no other
\* map.
C14_BansAreStrongestTwo ==
    out.op = "generate_recommendations" =>
        LET bans == BansOf(out.val)
        IN /\ Len(bans) = Len(StrongestTwo)
           /\ \A i \in 1..Len(bans) :
                 /\ bans[i].action = <<"Ban", StrongestTwo[i].k>>
                 /\ bans[i].confidence = "high"

\* the opponent has three maps at 60% or more, one of them at exactly 60%
\* and ranked second: it is banned and the third one is not
C14_Witness ==
    /\ out.op = "generate_recommendations"
    /\ Len(BansOf(out.val)) = 2
    /\ RLeq(StrongestTwo[2].win_rate, RInt(60))
    /\ Cardinality({i \in 1..Len(data.team_b.map_stats) :
                      RLeq(RInt(60), data.team_b.map_stats[i].win_rate)}) = 3

\* ------------------------------------------------- agent compositions
MaxAgentBlock == 3

AgentPool == AgentNames \cup {"Omen"}

\* opponent matches without maps: c1 lost with Jett and Sova, c2 won with
\* Omen, c3 lost with Omen, c4 won without recorded picks
AgentMatches(c1, c2, c3, c4) ==
    Repeat(MatchOf(TeamB, TRUE, FALSE, 1, << >>,
                   << Pick("b1", "Jett"), Pick("b2", "Sova") >>, << >>), c1)
    \o Repeat(MatchOf(TeamB, TRUE, TRUE, 1, << >>,
                      << Pick("b1", "Omen") >>, << >>), c2)
    \o Repeat(MatchOf(TeamB, TRUE, FALSE, 1, << >>,
                      << Pick("b1", "Omen") >>, << >>), c3)
    \o Repeat(MatchOf(TeamB, TRUE, TRUE, 1, << >>, << >>, << >>), c4)

InitAgents ==
    /\ input \in [a : {<< >>},
                  b : {AgentMatches(c1, c2, c3, c4) :
                          c1 \in 0..MaxAgentBlock, c2 \in 0..MaxAgentBlock,
                          c3 \in 0..MaxAgentBlock, c4 \in 0..MaxAgentBlock},
                  h2h : {<< >>}]
    /\ hashseed \in SetOrders(AgentPool)
    /\ data = NoData
    /\ pc = "start"
    /\ out = NoOut
    /\ clock = 0
    /\ reports = << >>

NextAgents ==
    \/ FetchScoutingData
    \/ GenerateRecommendations
    \/ DetectOpponentWeaknesses

SpecAgents == InitAgents /\ [][NextAgents]_vars

\* the opponent's strength-type agent dependencies with a difference above
\* 20, most significant first
StrongDependencies ==
    LET strong(dep) == dep.type = "strength" /\ dep.difference > 200
    IN SelectSeq(detect_agent_dependencies(data.team_b, hashseed), strong)

\* C15: each of the opponent's two most significant strength-type agent
\* dependencies with a difference above 20 gets an agent_strategy
\* recommendation 'Counter/Ban <agent>' with confidence medium, however many
\* weakness-type dependencies there are and however large they are.
C15_CounterTopTwoStrengths ==
    out.op = "generate_recommendations" =>
        \A i \in 1..Min(2, Len(StrongDependencies)) :
            \E r \in RecsOfType(out.val, "agent_strategy") :
                /\ r.action = <<"Counter/Ban", StrongDependencies[i].agent>>
                /\ r.confidence = "medium"

\* ------------------------------------------------ tactical recommendation
\* the recommendations that name the given star player
FocusOn(recs, star) ==
    {r \in RecsOfType(recs, "tactical") :
        r.action = <<"Focus", star.name>> /\ r.confidence = "high"}

NonTactical(recs) ==
    Cardinality({i \in 1..Len(recs) : recs[i].type # "tactical"})

\* C16 (as claimed): whenever the opponent has a rostered player with
\* recorded stats, the list holds a tactical 'Focus' recommendation with
\* confidence high naming the opponent's top-1 star player, whatever was
\* produced before it.
C16_FocusAlways ==
    out.op = "generate_recommendations" =>
        LET stars == get_star_players(data.team_b, 1)
        IN stars # << >> => FocusOn(out.val, stars[1]) # {}

\* C16 (amended): when the opponent has a rostered player with recorded
\* stats, the list holds the 'Focus' recommendation (confidence high, naming
\* the player get_star_players ranks first, as its last entry) exactly when
\* fewer than 6 map-pick, map-ban and agent recommendations come before it;
\* without such a player there is no tactical recommendation.
C16_FocusUnlessCapped ==
    out.op = "generate_recommendations" =>
        LET stars == get_star_players(data.team_b, 1)
            recs == out.val
        IN IF stars = << >>
           THEN RecsOfType(recs, "tactical") = {}
           ELSE /\ FocusOn(recs, stars[1]) # {} <=> NonTactical(recs) < 6
                /\ NonTactical(recs) < 6 =>
                      /\ recs[Len(recs)] \in FocusOn(recs, stars[1])
                      /\ Len(recs) = NonTactical(recs) + 1

\* three picks and two bans come first and the Focus recommendation is the
\* sixth and last entry
C16_Witness ==
    /\ out.op = "generate_recommendations"
    /\ TypesOf(out.val) = <<"map_pick", "map_pick", "map_pick", "map_ban",
                            "map_ban", "tactical">>
    /\ out.val[6] \in FocusOn(out.val, get_star_players(data.team_b, 1)[1])

\* ------------------------------------------------ strengths in the report
\* what the opponent did on one map: 3-0 (100%), 2-0 (too few games for a
\* dominance) or 2-1 (66.7%, below the dominance rate)
SignalGames ==
    {<<TRUE, TRUE, TRUE>>, <<TRUE, TRUE>>, <<TRUE, TRUE, FALSE>>}

\* the opponent's five match results: 80%, 60% and 40% won
SignalResults ==
    { <<"W", "W", "W", "W", "L">>, <<"W", "W", "W", "L", "L">>,
      <<"L", "L", "W", "W", "L">> }

\* Jett picked in the first three matches and Sova in the first four
JettSovaEarly ==
    [g \in 1..5 |-> IF g <= 3
                    THEN << Pick("b1", "Jett"), Pick("b2", "Sova") >>
                    ELSE IF g = 4 THEN << Pick("b2", "Sova") >> ELSE << >>]

SignalSeries ==
    {SeriesMatches(TeamB, p, r, k, NoLines) :
        p \in UNION {ListsOf(SignalGames, n) : n \in 0..MaxRecMaps},
        r \in SignalResults, k \in {NoLines, JettSovaEarly}}

\* report_builder.py:201-214
BuildStrengths ==
    /\ pc = "ready"
    /\ out' = [op |-> "_build_strengths",
               val |-> build_strengths(data, hashseed)]
    /\ UNCHANGED <<input, hashseed, data, pc, clock, reports>>

InitSignals == InitWith([a : {<< >>}, b : SignalSeries, h2h : {<< >>}])

NextSignals ==
    \/ FetchScoutingData
    \/ DetectOpponentStrengths
    \/ BuildStrengths

SpecSignals == InitSignals /\ [][NextSignals]_vars

\* the opponent's maps with at least 3 games and a win rate of at least 70,
\* in map_stats order
DominantMaps ==
    LET dominant(st) == st.played >= 3 /\ RLeq(RInt(70), st.win_rate)
    IN SelectSeq(data.team_b.map_stats, dominant)

HasDominance(entries, m) ==
    \E i \in 1..Len(entries) :
        /\ entries[i].category = "Map Dominance"
        /\ entries[i].description = <<"Dominant on", m>>
        /\ entries[i].severity = "high"

\* 1 when the Overall Performance entry comes before the map entries
OverallFirst == IF RLeq(RInt(60), data.team_b.win_rate) THEN 1 ELSE 0

\* C17 (as claimed): every map with at least 3 games and a win rate of at
\* least 70 has a 'Map Dominance' entry with severity high in the detected
\* strengths and in the report's key strengths.
C17_DominanceForEveryMap ==
    out.op \in {"detect_opponent_strengths", "_build_strengths"} =>
        \A i \in 1..Len(DominantMaps) : HasDominance(out.val, DominantMaps[i].k)

\* C17 (amended): the i-th map, in map_stats order, with at least 3 games
\* and a win rate of at least 70 has its 'Map Dominance' entry (severity
\* high) among the detected strengths exactly when i plus the Overall
\* Performance entry (present when the overall win rate is at least 60) fits
\* in 5 entries, and among the report's key strengths exactly when it fits
\* in 3.
C17_DominanceWithinCaps ==
    /\ out.op = "detect_opponent_strengths" =>
          \A i \in 1..Len(DominantMaps) :
              HasDominance(out.val, DominantMaps[i].k) <=> OverallFirst + i <= 5
    /\ out.op = "_build_strengths" =>
          \A i \in 1..Len(DominantMaps) :
              HasDominance(out.val, DominantMaps[i].k) <=> OverallFirst + i <= 3

\* five dominant maps behind an Overall Performance entry: detection keeps
\* four of them and drops the fifth
C17_Witness ==
    /\ out.op = "detect_opponent_strengths"
    /\ Len(DominantMaps) = 5
    /\ OverallFirst = 1
    /\ HasDominance(out.val, DominantMaps[4].k)
    /\ ~HasDominance(out.val, DominantMaps[5].k)

\* ----------------------------------------------- weaknesses in the report
\* the opponent's maps with at least 2 games and a win rate of at most 40
WeakMaps ==
    LET weak(st) == st.played >= 2 /\ RLeq(st.win_rate, RInt(40))
    IN SelectSeq(data.team_b.map_stats, weak)

\* an entry for map m that tells the coach to pick it
AdvisesPick(entries, m) ==
    \E i \in 1..Len(entries) :
        /\ entries[i].category = "Map Weakness"
        /\ entries[i].description = <<"Struggles on", m>>
        /\ entries[i].exploitability = "high"
        /\ "recommendation" \in DOMAIN entries[i]
        /\ entries[i].recommendation = <<"Pick", m, "in veto phase">>

\* C18: for every opponent map with at least 2 games and a win rate of at
\* most 40, the detected weaknesses hold a 'Map Weakness' entry for it with
\* exploitability high and the recommendation to pick that map, and the
\* assembled report carries that entry, recommendation included, in its
\* exploitable weaknesses.
C18_PickAdviceReachesReport ==
    \A i \in 1..Len(reports) :
        \A j \in 1..Len(WeakMaps) :
            /\ AdvisesPick(detect_opponent_weaknesses(data, reports[i].process),
                           WeakMaps[j].k)
            /\ AdvisesPick(reports[i].report.exploitable_weaknesses,
                           WeakMaps[j].k)

\* ------------------------------------------------------- heavy reliance
\* share of agent pick entry p among all of the opponent's picks, in percent
PickShare(p) ==
    Rat(p.n * 100,
        SumSeq([i \in 1..Len(data.team_b.agent_picks) |->
                   data.team_b.agent_picks[i].n]))

\* C19: every agent with more than 30% of all of the opponent's picks that
\* is a detected strength-type agent dependency has a 'Heavy reliance'
\* weakness with exploitability high citing its pick share and its
\* differential, also when another agent has an equal or larger share.
C19_HeavyRelianceForAnyAgent ==
    out.op = "detect_opponent_weaknesses" =>
        LET picks == data.team_b.agent_picks
            deps == detect_agent_dependencies(data.team_b, hashseed)
        IN \A i \in 1..Len(picks), j \in 1..Len(deps) :
              (/\ RLess(RInt(30), PickShare(picks[i]))
               /\ deps[j].agent = picks[i].k
               /\ deps[j].type = "strength")
              => \E w \in 1..Len(out.val) :
                    /\ out.val[w].category = "Agent Dependency"
                    /\ out.val[w].description =
                          <<"Heavy reliance on", picks[i].k>>
                    /\ out.val[w].exploitability = "high"
                    /\ out.val[w].metric = <<Round1(PickShare(picks[i])),
                                             picks[i].k, deps[j].difference>>

\* --------------------------------------------------- justified strengths
\* the trigger that justifies one detected strength
Justified(e) ==
    LET opponent == data.team_b
        deps == detect_agent_dependencies(opponent, hashseed)
    IN CASE e.category = "Overall Performance" ->
              /\ RLeq(RInt(60), opponent.win_rate)
              /\ e.severity \in {"high", "medium"}
              /\ e.severity = "high" <=> RLeq(RInt(70), opponent.win_rate)
         [] e.category = "Map Dominance" ->
              \E i \in 1..Len(opponent.map_stats) :
                  /\ e.description = <<"Dominant on", opponent.map_stats[i].k>>
                  /\ opponent.map_stats[i].played >= 3
                  /\ RLeq(RInt(70), opponent.map_stats[i].win_rate)
         [] e.category = "Momentum" ->
              detect_form_patterns(opponent).momentum = "positive"
         [] e.category = "Agent Mastery" ->
              \E j \in 1..Len(deps) :
                  /\ e.description = <<"Strong with", deps[j].agent>>
                  /\ deps[j].type = "strength"
                  /\ deps[j].difference > 150
         [] OTHER -> FALSE

\* C20: every entry returned by detect_opponent_strengths is justified by
\* its trigger (Overall Performance only at a win rate of 60 or more, with
\* severity high exactly at 70 or more; Map Dominance only for a map with at
\* least 3 games and a win rate of 70 or more; Momentum only when the
\* momentum is positive; Agent Mastery only for a strength-type dependency
\* with a difference above 15); at most 2 entries are Agent Mastery and at
\* most 5 entries are returned.
C20_StrengthsJustified ==
    out.op = "detect_opponent_strengths" =>
        /\ \A i \in 1..Len(out.val) : Justified(out.val[i])
        /\ Cardinality({i \in 1..Len(out.val) :
                           out.val[i].category = "Agent Mastery"}) <= 2
        /\ Len(out.val) <= 5

\* all four kinds of strength in one list of five, the overall one with
\* severity medium
C20_Witness ==
    /\ out.op = "detect_opponent_strengths"
    /\ Len(out.val) = 5
    /\ {out.val[i].category : i \in 1..Len(out.val)} =
          {"Overall Performance", "Map Dominance", "Momentum", "Agent Mastery"}
    /\ out.val[1].severity = "medium"

\* ------------------------------------------------- assembled report caps
\* what the opponent did on one map: 3-0 (dominant, worth a ban) or 0-2
\* (weak, worth a pick)
AssemblyGames == {<<TRUE, TRUE, TRUE>>, <<FALSE, FALSE>>}

\* the opponent's five matches: 60% or 40% won; without picks or player
\* lines, or with Jett picked in the first three and a player line
AssemblySeries ==
    {SeriesMatches(TeamB, p, r, l[1], l[2]) :
        p \in UNION {ListsOf(AssemblyGames, n) : n \in 0..MaxRecMaps},
        r \in { <<"W", "W", "W", "L", "L">>, <<"L", "L", "W", "W", "L">> },
        l \in { <<NoLines, NoLines>>, <<JettInWins, StarLine>> }}

InitAssembly == InitWith([a : OurSeries, b : AssemblySeries, h2h : {<< >>}])

NextAssembly ==
    \/ FetchScoutingData
    \/ BuildReport

SpecAssembly == InitAssembly /\ [][NextAssembly]_vars

\* `short` holds the first `cap` entries of `long`, compared on `fields`
LeadingPrefix(short, long, cap, fields) ==
    /\ Len(short) = Min(cap, Len(long))
    /\ \A j \in 1..Len(short) : \A f \in fields : short[j][f] = long[j][f]

\* C21: in every assembled report key_strengths and exploitable_weaknesses
\* hold at most 3 entries and coach_recommendations at most 5, each being
\* the leading entries, in order, of the detector's output, which holds at
\* most 5 strengths, 5 weaknesses and 6 recommendations.
C21_ReportListsArePrefixes ==
    \A i \in 1..Len(reports) :
        LET r == reports[i].report
            strengths == detect_opponent_strengths(data, reports[i].process)
            weaknesses == detect_opponent_weaknesses(data, reports[i].process)
            recs == generate_recommendations(data, reports[i].process)
        IN /\ Len(strengths) <= 5 /\ Len(weaknesses) <= 5 /\ Len(recs) <= 6
           /\ Len(r.key_strengths) <= 3
           /\ Len(r.exploitable_weaknesses) <= 3
           /\ Len(r.coach_recommendations) <= 5
           /\ LeadingPrefix(r.key_strengths, strengths, 3,
                            {"category", "description", "metric", "severity"})
           /\ LeadingPrefix(r.exploitable_weaknesses, weaknesses, 3,
                            {"category", "description", "metric",
                             "exploitability"})
           /\ LeadingPrefix(r.coach_recommendations, recs, 5,
                            {"action", "type", "reasoning", "expected_impact",
                             "confidence", "grid_data"})

\* a report built where the detectors found 4 strengths and 6
\* recommendations: the report keeps 3 and 5 of them
C21_Witness ==
    /\ reports # << >>
    /\ Len(detect_opponent_strengths(data, reports[1].process)) > 3
    /\ Len(generate_recommendations(data, reports[1].process)) = 6
    /\ Len(reports[1].report.key_strengths) = 3
    /\ Len(reports[1].report.coach_recommendations) = 5

\* ----------------------------------------------------------- head to head
MaxH2H == 3

\* models.py:125  winner_team_id: Optional[str] = None
NoWinner == "None"

\* a meeting of team A and team B with the given winner and map winners
Meeting(winner, map_winners) ==
    [team_a_id |-> TeamA.id, team_b_id |-> TeamB.id,
     winner_team_id |-> winner, date |-> 1,
     maps_played |-> [i \in 1..Len(map_winners) |->
                        [map_name |-> map_winners[i][1],
                         team_a_score |-> IF map_winners[i][2] = TeamA.id
                                          THEN 13 ELSE 9,
                         team_b_score |-> IF map_winners[i][2] = TeamA.id
                                          THEN 9 ELSE 13,
                         winner_team_id |-> map_winners[i][2]]],
     agent_picks |-> << >>, player_stats |-> << >>]

\* won by A 2-0, won by B 2-1, and a meeting recorded without a winner
\* after one map each
MeetingPool ==
    { Meeting(TeamA.id, << <<"Ascent", TeamA.id>>, <<"Bind", TeamA.id>> >>),
      Meeting(TeamB.id, << <<"Ascent", TeamB.id>>, <<"Bind", TeamA.id>>,
                           <<"Haven", TeamB.id>> >>),
      Meeting(NoWinner, << <<"Bind", TeamA.id>>, <<"Haven", TeamB.id>> >>) }

\* stats.py:244-276
CalculateHeadToHeadStats ==
    /\ pc = "ready"
    /\ out' = [op |-> "calculate_head_to_head_stats",
               val |-> calculate_head_to_head_stats(data)]
    /\ UNCHANGED <<input, hashseed, data, pc, clock, reports>>

InitH2H ==
    InitWith([a : {<< >>}, b : {<< >>},
              h2h : ListsUpTo(MeetingPool, MaxH2H)])

NextH2H ==
    \/ FetchScoutingData
    \/ CalculateHeadToHeadStats

SpecH2H == InitH2H /\ [][NextH2H]_vars

\* the number of meetings won by the team with the given id
MeetingsWonBy(id) ==
    Cardinality({i \in 1..Len(input.h2h) : input.h2h[i].winner_team_id = id})

\* the number of maps named m won by the team with the given id
MapsWonBy(id, m) ==
    LET won(i) == {j \in 1..Len(input.h2h[i].maps_played) :
                      /\ input.h2h[i].maps_played[j].map_name = m
                      /\ input.h2h[i].maps_played[j].winner_team_id = id}
    IN SumSeq([i \in 1..Len(input.h2h) |-> Cardinality(won(i))])

\* C22: for an empty head-to-head list calculate_head_to_head_stats returns
\* zeros and an empty map tally; otherwise matches_played is the number of
\* meetings, team_a_wins and team_b_wins are the numbers of meetings won by
\* team A and by team B, and the map tally credits each map to the team
\* that won it.
C22_HeadToHeadCounts ==
    out.op = "calculate_head_to_head_stats" =>
        IF input.h2h = << >>
        THEN out.val = [matches_played |-> 0, team_a_wins |-> 0,
                        team_b_wins |-> 0, team_a_win_rate |-> 0,
                        map_records |-> << >>]
        ELSE /\ out.val.matches_played = Len(input.h2h)
             /\ out.val.team_a_wins = MeetingsWonBy(TeamA.id)
             /\ out.val.team_b_wins = MeetingsWonBy(TeamB.id)
             /\ \A r \in 1..Len(out.val.map_records) :
                   LET rec == out.val.map_records[r]
                   IN /\ rec.team_a_wins = MapsWonBy(TeamA.id, rec.k)
                      /\ rec.team_b_wins = MapsWonBy(TeamB.id, rec.k)

\* ------------------------------------------------ the /api/scout request
\* client.py:391  next(..., None)
NoTeam == [tag |-> "None"]

\* an unknown id answered with some team of the directory
get_team_by_id_Fallback(directory, team_id) ==
    IF team_id \in DOMAIN directory THEN directory[team_id] ELSE directory.B

\* client.py:379-391
get_team_by_id(directory, team_id) ==
    IF team_id \in DOMAIN directory THEN directory[team_id] ELSE NoTeam

\* the teams the provider knows: both with their rosters, or one of them
\* with an empty roster
Directories ==
    { [A |-> TeamA, B |-> TeamB],
      [A |-> TeamA, B |-> [TeamB EXCEPT !.roster = << >>]],
      [A |-> [TeamA EXCEPT !.roster = << >>], B |-> TeamB] }

\* a request names team A or team B by an id the provider knows or by "Z"
ScoutRequests ==
    [team_a_id : {TeamA.id, "Z"}, team_b_id : {TeamB.id, "Z"}]

\* gemini_client.py:188, 193-213, 215-218: not configured, answered, failed
GeminiOutcomes == {"unconfigured", "answered", "failed"}

\* gemini_client.py:223-325  the insight text written from the report
\* itself: its parts in the order they are put into the text
generate_demo_insights(report_data) ==
    LET overview == report_data.match_overview
        snapshot == report_data.opponent_snapshot
        best_maps == Take(snapshot.best_maps, 2)
        worst_maps == Take(snapshot.worst_maps, 2)
        recs == Take(report_data.coach_recommendations, 3)
        strengths == Take(report_data.key_strengths, 2)
        weaknesses == Take(report_data.exploitable_weaknesses, 2)
    IN [team_a |-> overview.team_a_name,
        team_b |-> overview.team_b_name,
        best_map_names |->
            IF best_maps # << >>
            THEN [i \in 1..Len(best_maps) |-> best_maps[i].map]
            ELSE << "various maps" >>,
        worst_map_names |->
            IF worst_maps # << >>
            THEN [i \in 1..Len(worst_maps) |-> worst_maps[i].map]
            ELSE << "certain maps" >>,
        star_name |-> IF snapshot.star_players # << >>
                      THEN snapshot.star_players[1].name
                      ELSE "their star player",
        key_agent |-> IF snapshot.most_played_agents # << >>
                      THEN snapshot.most_played_agents[1].agent
                      ELSE "their key agents",
        win_rate |-> overview.opponent_overall_win_rate,
        rec_text |->
            IF recs # << >>
            THEN [i \in 1..Len(recs) |-> <<recs[i].action, recs[i].reasoning>>]
            ELSE << "Standard preparation recommended" >>,
        strength_text |->
            IF strengths # << >>
            THEN [i \in 1..Len(strengths) |->
                    <<strengths[i].description, strengths[i].metric>>]
            ELSE << "No exceptional strengths identified" >>,
        weakness_text |->
            IF weaknesses # << >>
            THEN [i \in 1..Len(weaknesses) |->
                    <<weaknesses[i].description, weaknesses[i].metric>>]
            ELSE << "No major weaknesses identified" >>,
        matches_analyzed |-> overview.matches_analyzed_team_b,
        time_window_days |-> overview.analysis_time_window_days]

\* a failed generation passed on to the caller
generate_strategic_insights_Raising(report_data, outcome) ==
    IF outcome = "failed"
    THEN [raised |-> TRUE]
    ELSE [raised |-> FALSE, success |-> TRUE, model |-> "demo-mode",
          insights |-> generate_demo_insights(report_data)]

\* gemini_client.py:169-221  `raised` tells a return from an exception
generate_strategic_insights(report_data, outcome) ==
    IF outcome = "answered"
    THEN [raised |-> FALSE, success |-> TRUE, model |-> "gemini-pro",
          insights |-> "response.text"]
    ELSE [raised |-> FALSE, success |-> TRUE, model |-> "demo-mode",
          insights |-> generate_demo_insights(report_data)]

\* main.py:236-267
ScoutResponse(report, ai_insights) ==
    IF ai_insights.raised
    THEN [status |-> 500, detail |-> "Gemini API error"]
    ELSE [status |-> 200, success |-> TRUE,
          report_id |-> report.report_id,
          generated_at |-> report.generated_at,
          layer1_report |->
              [match_overview |-> report.match_overview,
               opponent_snapshot |-> report.opponent_snapshot,
               key_strengths |-> report.key_strengths,
               exploitable_weaknesses |-> report.exploitable_weaknesses,
               coach_recommendations |-> report.coach_recommendations],
          layer2_insights |-> ai_insights,
          raw_stats |-> [team_a |-> report.team_a_stats,
                         team_b |-> report.team_b_stats]]

\* main.py:217-223, 265-267 and client.py:479-495
ScoutFetch ==
    /\ pc = "start"
    /\ LET team_a == get_team_by_id(input.directory, input.request.team_a_id)
           team_b == get_team_by_id(input.directory, input.request.team_b_id)
       IN IF team_a = NoTeam \/ team_b = NoTeam
          THEN /\ out' = [response |->
                              [status |-> 500,
                               detail |-> "Could not find one or both teams"],
                          op |-> "api_scout", gemini |-> "not called"]
               /\ pc' = "done"
               /\ UNCHANGED data
          ELSE /\ data' = [team_a |-> compute_team_history(team_a, input.a),
                           team_b |-> compute_team_history(team_b, input.b),
                           head_to_head_matches |-> input.h2h,
                           time_window_days |-> TimeWindowDays]
               /\ pc' = "fetched"
               /\ UNCHANGED out
    /\ UNCHANGED <<input, hashseed, clock, reports>>

\* main.py:225-231
ScoutBuild ==
    /\ pc = "fetched"
    /\ reports' = Append(reports,
                         [report |-> build_report(data, hashseed, clock),
                          process |-> hashseed])
    /\ pc' = "built"
    /\ UNCHANGED <<input, hashseed, data, out, clock>>

\* main.py:233-263
ScoutInsights ==
    /\ pc = "built"
    /\ \E outcome \in GeminiOutcomes :
          LET report == reports[Len(reports)].report
          IN out' = [response |->
                         ScoutResponse(report,
                             generate_strategic_insights(report, outcome)),
                     op |-> "api_scout", gemini |-> outcome]
    /\ pc' = "done"
    /\ UNCHANGED <<input, hashseed, data, clock, reports>>

InitScout ==
    InitWith([a : OurHistories,
              b : ListsUpTo(MatchPool(TeamB), 1),
              h2h : HeadToHeads,
              directory : Directories,
              request : ScoutRequests])

NextScout ==
    \/ ScoutFetch
    \/ ScoutBuild
    \/ ScoutInsights

SpecScout == InitScout /\ [][NextScout]_vars

\* ----------------------------------------------------------------- C23
ScoutTeamA == get_team_by_id(input.directory, input.request.team_a_id)

ScoutTeamB == get_team_by_id(input.directory, input.request.team_b_id)

ZeroStats(stats) ==
    /\ stats.overall.total_matches = 0
    /\ stats.overall.wins = 0
    /\ stats.overall.losses = 0
    /\ stats.overall.win_rate = 0
    /\ stats.overall.recent_form = << >>
    /\ stats.maps = << >>
    /\ stats.agents = << >>
    /\ stats.players = << >>

\* the kills and deaths a player has over a list of matches
PlayerTotal(matches, player_id, field) ==
    LET P == {p \in Visited([i \in 1..Len(matches) |->
                                Len(matches[i].player_stats)]) :
                matches[p[1]].player_stats[p[2]].player_id = player_id}
    IN SumOver([p \in P |-> matches[p[1]].player_stats[p[2]][field]], P)

UnknownTeam ==
    \/ input.request.team_a_id \notin DOMAIN input.directory
    \/ input.request.team_b_id \notin DOMAIN input.directory

\* C24: a request naming an unknown team A or team B ends as an error that
\* says the teams could not be found; no match history is aggregated into a
\* data package, no report is built and the text generation is not called,
\* also when the other team of the request is known
C24_UnknownTeamIsError ==
    UnknownTeam =>
        /\ data = NoData
        /\ reports = << >>
        /\ pc \in {"start", "done"}
        /\ pc = "done" =>
             /\ out.response = [status |-> 500,
                                detail |-> "Could not find one or both teams"]
             /\ out.gemini = "not called"

\* the answer to a request whose team A is unknown and whose team B is known
\* and has a match
C24_Witness ==
    /\ pc = "done"
    /\ input.request.team_a_id \notin DOMAIN input.directory
    /\ input.request.team_b_id \in DOMAIN input.directory
    /\ input.b # << >>
    /\ out.response.status = 500

\* ----------------------------------------------------------------- C25
\* C25: whatever the text generation does (not configured, answers, fails),
\* a request for two known teams is answered with success, and the answer's
\* layer1_report and raw_stats are the sections and the team statistics of
\* the report built from the data package; a failed generation only changes
\* layer2_insights, which then holds the fallback insight
C25_ReportUnaffectedByGemini ==
    pc = "done" /\ ~UnknownTeam =>
        LET report == build_report(data, reports[1].process, clock)
        IN /\ out.response.status = 200
           /\ out.response.success
           /\ out.response.layer1_report =
                 [match_overview |-> report.match_overview,
                  opponent_snapshot |-> report.opponent_snapshot,
                  key_strengths |-> report.key_strengths,
                  exploitable_weaknesses |-> report.exploitable_weaknesses,
                  coach_recommendations |-> report.coach_recommendations]
           /\ out.response.raw_stats = [team_a |-> report.team_a_stats,
                                        team_b |-> report.team_b_stats]
           /\ out.response.layer2_insights.success
           /\ out.gemini = "failed" =>
                 out.response.layer2_insights.model = "demo-mode"

\* the answer to a request whose text generation failed, for an opponent
\* with a match
C25_Witness ==
    /\ pc = "done"
    /\ out.gemini = "failed"
    /\ input.b # << >>
    /\ out.response.status = 200
    /\ out.response.layer1_report.match_overview.matches_analyzed_team_b = 1

\* ----------------------------------------------------------------- C26
\* other records the provider could have returned for each team
OtherHistoriesA == OurSeries \cup {<< >>}

OtherHistoriesB == {<< >>, FormMatches(<<"W", "W", "W">>)}

WithTeamA(d, matches) ==
    [d EXCEPT !.team_a = compute_team_history(TeamA, matches)]

WithTeamB(d, matches) ==
    [d EXCEPT !.team_b = compute_team_history(TeamB, matches)]

\* C26: in the report just built, team B's statistics, the opponent snapshot, the
\* strengths and the weaknesses are what they would be had team A's records
\* been any others, and team A's statistics are what they would be had team
\* B's records been any others (in the same process)
C26_PipelinesIndependent ==
    reports # << >> =>
        LET r == reports[Len(reports)].report
            seed == reports[Len(reports)].process
        IN /\ \A alt \in OtherHistoriesA :
                LET d2 == WithTeamA(data, alt)
                IN /\ RawStats(d2.team_b) = r.team_b_stats
                   /\ build_opponent_snapshot(d2) = r.opponent_snapshot
                   /\ build_strengths(d2, seed) = r.key_strengths
                   /\ build_weaknesses(d2, seed) = r.exploitable_weaknesses
           /\ \A alt \in OtherHistoriesB :
                RawStats(WithTeamB(data, alt).team_a) = r.team_a_stats

\* a report with strengths, weaknesses and snapshot entries whose
\* recommendations would differ with other records of team A, and with other
\* records of team B
C26_Witness ==
    /\ reports # << >>
    /\ reports[1].report.key_strengths # << >>
    /\ reports[1].report.exploitable_weaknesses # << >>
    /\ reports[1].report.opponent_snapshot.best_maps # << >>
    /\ \E alt \in OtherHistoriesA :
          build_recommendations(WithTeamA(data, alt), reports[1].process)
              # reports[1].report.coach_recommendations
    /\ \E alt \in OtherHistoriesB :
          build_recommendations(WithTeamB(data, alt), reports[1].process)
              # reports[1].report.coach_recommendations

\* ----------------------------------------------------------------- C27
MaxRecent == 6

\* the dates of n matches as the provider lists them: newest first, oldest
\* first, or mixed with some matches on the same date
DateOrders(n) ==
    { [i \in 1..n |-> n - i], [i \in 1..n |-> i], [i \in 1..n |-> (3 * i) % 4] }

\* matches of team B with the given results and dates; every second match
\* has two maps, both lost by team B, the others have none
DatedMatches(results, dates) ==
    [i \in 1..Len(results) |->
        MatchOf(TeamB, TRUE, results[i] = "W", dates[i],
                IF i % 2 = 0
                THEN << <<"Ascent", FALSE, 7>>, <<"Bind", FALSE, 9>> >>
                ELSE << >>,
                << >>, << >>)]

DatedHistories ==
    UNION { {DatedMatches(r, d) : r \in ListsOf({"W", "L"}, n),
                                  d \in DateOrders(n)} : n \in 0..MaxRecent }

InitRecent == InitWith([a : {<< >>}, b : DatedHistories, h2h : {<< >>}])

NextRecent ==
    \/ FetchScoutingData
    \/ CalculateOverallStats

SpecRecent == InitRecent /\ [][NextRecent]_vars

\* the result of the j-th match of team B's list, and how many matches of
\* the list are newer than it, or at least as new
OutcomeOf(j) == IF input.b[j].winner_team_id = TeamB.id THEN "W" ELSE "L"

NewerThan(j) ==
    Cardinality({k \in 1..Len(input.b) : input.b[k].date > input.b[j].date})

AsNewAs(j) ==
    Cardinality({k \in 1..Len(input.b) : input.b[k].date >= input.b[j].date})

\* C27: the aggregate's recent_form has min(5, number of matches) entries,
\* and its i-th entry is the result (W when the team is the match's winner,
\* else L) of a match that is the i-th most recent by date, whatever the
\* maps of the matches
C27_RecentForm ==
    data # NoData =>
        LET form == data.team_b.recent_form
        IN /\ Len(form) = Min(5, Len(input.b))
           /\ \A i \in 1..Len(form) :
                \E j \in 1..Len(input.b) :
                    /\ form[i] = OutcomeOf(j)
                    /\ NewerThan(j) < i
                    /\ i <= AsNewAs(j)

\* an aggregate of six matches listed oldest first, the oldest one won and
\* the newest one lost
C27_Witness ==
    /\ data # NoData
    /\ Len(input.b) = 6
    /\ \A j \in 1..5 : input.b[j].date < input.b[j + 1].date
    /\ OutcomeOf(1) = "W"
    /\ OutcomeOf(6) = "L"
    /\ data.team_b.recent_form[1] = "L"

\* ----------------------------------------------------------------- C28
\* the map outcomes of team B's matches: <<match, position>> pairs, and
\* those on one map
MapOutcomes ==
    Visited([i \in 1..Len(input.b) |-> Len(input.b[i].maps_played)])

OutcomesOn(map_name) ==
    {p \in MapOutcomes : input.b[p[1]].maps_played[p[2]].map_name = map_name}

\* the rounds team B took, and conceded, in the outcomes on one map
RoundsFor(map_name) ==
    SumOver([p \in MapOutcomes |->
                IF input.b[p[1]].team_a_id = TeamB.id
                THEN input.b[p[1]].maps_played[p[2]].team_a_score
                ELSE input.b[p[1]].maps_played[p[2]].team_b_score],
            OutcomesOn(map_name))

RoundsAgainst(map_name) ==
    SumOver([p \in MapOutcomes |->
                IF input.b[p[1]].team_a_id = TeamB.id
                THEN input.b[p[1]].maps_played[p[2]].team_b_score
                ELSE input.b[p[1]].maps_played[p[2]].team_a_score],
            OutcomesOn(map_name))

\* C28: after calculate_map_stats, the table has one entry per map with an
\* outcome in the team's matches; in the entry, and in the aggregate's entry
\* it is computed from, played is the number of outcomes on the map, wins
\* the number of them won by the team, 0 <= wins <= played, losses is played
\* minus wins, the aggregate's win rate is exactly wins / played * 100 and
\* the table's is that value to one decimal, within 0..100, and the round
\* differential is the team's own rounds minus the other side's
C28_MapEntries ==
    out.op = "calculate_map_stats" =>
        /\ Len(out.val) = Len(data.team_b.map_stats)
        /\ {out.val[i].k : i \in 1..Len(out.val)} =
               {input.b[p[1]].maps_played[p[2]].map_name : p \in MapOutcomes}
        /\ \A i, j \in 1..Len(out.val) : out.val[i].k = out.val[j].k => i = j
        /\ \A i \in 1..Len(out.val) :
              LET e == out.val[i]
                  agg == data.team_b.map_stats[i]
                  played == Cardinality(OutcomesOn(e.k))
                  wins == Cardinality({p \in OutcomesOn(e.k) :
                              input.b[p[1]].maps_played[p[2]].winner_team_id
                                  = TeamB.id})
              IN /\ agg.k = e.k
                 /\ e.played = played /\ agg.played = played
                 /\ e.wins = wins /\ agg.wins = wins
                 /\ 0 <= e.wins /\ e.wins <= e.played
                 /\ e.losses = played - wins
                 /\ agg.win_rate[1] * played = wins * 100 * agg.win_rate[2]
                 /\ 2 * Abs(e.win_rate * played - 1000 * wins) <= played
                 /\ 0 <= e.win_rate /\ e.win_rate <= 1000
                 /\ e.rounds_won = RoundsFor(e.k)
                 /\ e.rounds_lost = RoundsAgainst(e.k)
                 /\ e.round_differential = RoundsFor(e.k) - RoundsAgainst(e.k)

\* a table computed from matches in which the team played a map from both
\* sides, winning some outcomes and losing others
C28_Witness ==
    /\ out.op = "calculate_map_stats"
    /\ \E i \in 1..Len(out.val) :
          /\ out.val[i].played >= 3
          /\ out.val[i].wins >= 1
          /\ out.val[i].losses >= 1
          /\ \E p, q \in OutcomesOn(out.val[i].k) :
                /\ input.b[p[1]].team_a_id = TeamB.id
                /\ input.b[q[1]].team_a_id # TeamB.id

\* ----------------------------------------------------------------- C29
\* C29: in the aggregate of a team, wins and losses are not negative, they
\* add up to total_matches, and wins is the number of matches (not maps) of
\* the list whose winner is the team
C29_WinsPlusLosses ==
    data # NoData =>
        /\ data.team_b.wins >= 0
        /\ data.team_b.losses >= 0
        /\ data.team_b.wins + data.team_b.losses = data.team_b.total_matches
        /\ data.team_b.wins =
               Cardinality({j \in 1..Len(input.b) :
                               input.b[j].winner_team_id = TeamB.id})

\* ----------------------------------------------------------------- C30
MaxFrameMatches == 2

\* packages with short histories of the opponent
InitFrame ==
    InitWith([a : OurHistories,
              b : ListsUpTo(ReportPool(TeamB), MaxFrameMatches),
              h2h : HeadToHeads])

\* the data package is fetched, then reports are built and single
\* calculator and detector operations are called on it, in any order
NextFrame ==
    \/ FetchScoutingData
    \/ BuildReport
    \/ CalculateOverallStats
    \/ CalculateMapStats
    \/ CalculateHeadToHeadStats
    \/ DetectMapDependencies
    \/ DetectAgentDependencies
    \/ DetectFormPatterns
    \/ DetectOpponentStrengths
    \/ DetectOpponentWeaknesses

SpecFrame == InitFrame /\ [][NextFrame]_vars

\* C30: after any sequence of build_report (which invokes every calculator
\* and detector) and of single calculator / detector calls,
\* the data package is exactly the one that was supplied (the match records,
\* both teams' aggregates, the head-to-head list), and a report built later
\* is the report built first
C30_PackageUnchanged ==
    pc = "ready" =>
        /\ data = [team_a |-> compute_team_history(TeamA, input.a),
                   team_b |-> compute_team_history(TeamB, input.b),
                   head_to_head_matches |-> input.h2h,
                   time_window_days |-> TimeWindowDays]
        /\ Len(reports) = 2 => reports[1] = reports[2]

\* two reports built and the map statistics calculated from a package whose
\* opponent has maps with different win rates, the better one first
C30_Witness ==
    /\ Len(reports) = 2
    /\ out.op = "calculate_map_stats"
    /\ Len(data.team_b.map_stats) >= 2
    /\ RLess(data.team_b.map_stats[2].win_rate,
             data.team_b.map_stats[1].win_rate)
    /\ data.head_to_head_matches # << >>

====
